---- MODULE Spec2Model ----
(***************************************************************************)
(* Report generation of excalibur: a workbook template whose rows may name *)
(* a query file in a reference column; the row's placeholder cells are     *)
(* filled from the single row the data source returns for that query.      *)
(*                                                                         *)
(* The repository holds two revisions of the generator                     *)
(* (internal/report/generator.go and unnamed/part_004) and two of the      *)
(* entry point (cmd/excalibur/main.go and unnamed/part_007).  The variable *)
(* rev selects the generator revision; both entry points are evaluated on  *)
(* the generator's result.                                                 *)
(*                                                                         *)
(* Texts (cell contents, query texts, error-free strings) are sequences of *)
(* tokens, so that trimming, the placeholder pattern, the template parser  *)
(* and path cleaning are computed rather than assumed.                     *)
(***************************************************************************)
EXTENDS Integers, Sequences, FiniteSets, TLC

\* Largest number of rows a template holds, over all its sheets.
MaxRows == 2

(***************************************************************************)
(* Texts                                                                   *)
(***************************************************************************)
WS == " "
Open == "{{"
Close == "}}"
Dot == "."
Sep == "/"
Idents == {"a", "z"}
Letters == <<"A", "B", "C", "D", "E", "F", "G", "H", "I", "J", "K", "L", "M",
            "N", "O", "P", "Q", "R", "S", "T", "U", "V", "W", "X", "Y", "Z">>

RECURSIVE TrimLeft(_)
TrimLeft(t) == IF t # <<>> /\ Head(t) = WS THEN TrimLeft(Tail(t)) ELSE t

RECURSIVE TrimRight(_)
TrimRight(t) ==
  IF t # <<>> /\ t[Len(t)] = WS THEN TrimRight(SubSeq(t, 1, Len(t) - 1)) ELSE t

\* strings.TrimSpace
TrimSpace(t) == TrimRight(TrimLeft(t))

\* strings.Contains(t, tok) for a one-token needle
Contains(t, tok) == \E i \in 1..Len(t) : t[i] = tok

(***************************************************************************)
(* Paths: a path is the sequence of its segments below the root.           *)
(***************************************************************************)
RECURSIVE SplitPath(_, _)
\* the segments of a text, cut at each separator; cur is the segment so far
SplitPath(t, cur) ==
  IF t = <<>> THEN <<cur>>
  ELSE IF Head(t) = Sep THEN <<cur>> \o SplitPath(Tail(t), <<>>)
  ELSE SplitPath(Tail(t), Append(cur, Head(t)))

RECURSIVE CleanSegs(_, _)
\* filepath.Clean on an absolute path: drops empty and "." segments, and
\* lets ".." remove the segment before it (at the root it is dropped)
CleanSegs(segs, acc) ==
  IF segs = <<>> THEN acc
  ELSE LET s == Head(segs) IN
       IF s = <<>> \/ s = <<Dot>> THEN CleanSegs(Tail(segs), acc)
       ELSE IF s = <<"..">>
            THEN CleanSegs(Tail(segs),
                           IF acc = <<>> THEN acc ELSE SubSeq(acc, 1, Len(acc) - 1))
       ELSE CleanSegs(Tail(segs), Append(acc, s))

\* filepath.Clean(filepath.Join(base, rel)) for an absolute, clean base
JoinClean(base, rel) == CleanSegs(base \o SplitPath(rel, <<>>), <<>>)

\* p lies inside directory dir
Inside(dir, p) == Len(p) > Len(dir) /\ SubSeq(p, 1, Len(dir)) = dir

(***************************************************************************)
(* Values: a kind and the value's text.                                    *)
(***************************************************************************)
Val(t, v) == [t |-> t, v |-> v]
VNil == Val("nil", <<>>)
VNum == Val("num", <<"150">>)
VBool == Val("bool", <<"true">>)
VStr == Val("str", <<"NORTH">>)
VTime == Val("time", <<"2024-01-01">>)
VBytes == Val("bytes", <<"raw">>)
VMap == Val("map", <<"k", "1">>)
VSlice == Val("slice", <<"t1">>)
\* a map holding a float NaN, which encoding/json refuses
VNaNMap == Val("map", <<"k", "NaN">>)

Str(text) == Val("str", text)

\* fmt.Sprint
Sprint(val) ==
  CASE val.t = "nil" -> <<"<nil>">>
    [] val.t = "map" -> <<"map[">> \o val.v \o <<"]">>
    [] val.t \in {"slice", "bytes"} -> <<"[">> \o val.v \o <<"]">>
    [] OTHER -> val.v

\* json.Marshal fails on this value
MarshalFails(val) == val.t = "map" /\ Contains(val.v, "NaN")

\* json.Marshal, as text
Marshal(val) ==
  CASE val.t = "map" -> <<"{">> \o val.v \o <<"}">>
    [] val.t = "bytes" -> <<"\"base64:">> \o val.v \o <<"\"">>
    [] OTHER -> <<"[\"">> \o val.v \o <<"\"]">>

(***************************************************************************)
(* The placeholder pattern                                                 *)
(*   ^\s*\{\{\s*\.\s*([a-zA-Z0-9_]+)\s*\}\}\s*$                            *)
(* A key is the sequence of the identifier tokens matched by the group.    *)
(***************************************************************************)
IsIdentRun(t) == t # <<>> /\ \A i \in 1..Len(t) : t[i] \in Idents

\* FindStringSubmatch: <<full, key>> on a match, <<>> otherwise
FindStringSubmatch(text) ==
  LET outer == TrimSpace(text) IN
  IF Len(outer) < 2 \/ Head(outer) # Open \/ outer[Len(outer)] # Close THEN <<>>
  ELSE LET inner == TrimSpace(SubSeq(outer, 2, Len(outer) - 1)) IN
       IF inner = <<>> \/ Head(inner) # Dot THEN <<>>
       ELSE LET key == TrimLeft(Tail(inner)) IN
            IF IsIdentRun(key) THEN <<text, key>> ELSE <<>>

\* the mapping has an entry for the key
HasKey(m, key) == Len(key) = 1 /\ key[1] \in DOMAIN m

(***************************************************************************)
(* text/template: parsing.  An action is a command of operands; an operand *)
(* is a chain of field names, the empty chain standing for the dot.        *)
(***************************************************************************)
ParseError == [ok |-> FALSE, ops |-> <<>>]

RECURSIVE IdentRunLen(_)
\* length of the run of identifier tokens at the head of t
IdentRunLen(t) ==
  IF t # <<>> /\ Head(t) \in Idents THEN 1 + IdentRunLen(Tail(t)) ELSE 0

RECURSIVE ParseAction(_, _, _)
\* toks: what is left of the action; ops: operands so far; inOp: the last
\* item read belongs to an operand (a field directly after it extends it)
ParseAction(toks, ops, inOp) ==
  IF toks = <<>>
  THEN IF ops = <<>> THEN ParseError       \* missing value for command
       ELSE [ok |-> TRUE, ops |-> ops]
  ELSE LET h == Head(toks) IN
    IF h = WS THEN ParseAction(Tail(toks), ops, FALSE)
    ELSE IF h = Dot
    THEN LET n == IdentRunLen(Tail(toks)) IN
         IF n > 0
         THEN LET name == SubSeq(toks, 2, n + 1)
                  rest == SubSeq(toks, n + 2, Len(toks))
              IN IF inOp
                 THEN LET last == ops[Len(ops)]
                          ext == IF last = <<>> THEN <<<<>>, name>>
                                 ELSE Append(last, name)
                      IN ParseAction(rest, [ops EXCEPT ![Len(ops)] = ext], TRUE)
                 ELSE ParseAction(rest, Append(ops, <<name>>), TRUE)
         ELSE IF inOp THEN ParseError      \* unexpected <.> in operand
              ELSE ParseAction(Tail(toks), Append(ops, <<>>), TRUE)
    ELSE ParseError     \* undefined function, or a character no action holds

\* index of the first Close in t, 0 if there is none
FirstClose(t) ==
  IF Contains(t, Close)
  THEN CHOOSE i \in 1..Len(t) : t[i] = Close /\ \A j \in 1..(i - 1) : t[j] # Close
  ELSE 0

TextNode(txt) == [k |-> "text", txt |-> txt, ops |-> <<>>]
ActionNode(ops) == [k |-> "action", txt |-> <<>>, ops |-> ops]

RECURSIVE ParseNodes(_, _, _)
\* template.Parse: the nodes of a text, or a failure
ParseNodes(t, nodes, lit) ==
  LET flushed == IF lit = <<>> THEN nodes ELSE Append(nodes, TextNode(lit)) IN
  IF t = <<>> THEN [ok |-> TRUE, nodes |-> flushed]
  ELSE IF Head(t) = Open
  THEN LET c == FirstClose(Tail(t)) IN
       IF c = 0 THEN [ok |-> FALSE, nodes |-> <<>>]      \* unclosed action
       ELSE LET inner == SubSeq(Tail(t), 1, c - 1)
                act == IF Contains(inner, Open) THEN ParseError
                       ELSE ParseAction(inner, <<>>, FALSE)
            IN IF ~act.ok THEN [ok |-> FALSE, nodes |-> <<>>]
               ELSE ParseNodes(SubSeq(Tail(t), c + 1, Len(Tail(t))),
                               Append(flushed, ActionNode(act.ops)), <<>>)
  ELSE ParseNodes(Tail(t), nodes, Append(lit, Head(t)))

(***************************************************************************)
(* text/template: execution against the fetched mapping.  strict is the    *)
(* option missingkey=error.                                                *)
(***************************************************************************)
Fail == [ok |-> FALSE, valid |-> FALSE, val |-> VNil]
Invalid == [ok |-> TRUE, valid |-> FALSE, val |-> VNil]
Found(v) == [ok |-> TRUE, valid |-> TRUE, val |-> v]

\* evalField on the data mapping itself
EvalTopField(m, name, strict) ==
  IF HasKey(m, name) THEN Found(m[name[1]])
  ELSE IF strict THEN Fail ELSE Invalid

\* evalField on the result of an earlier field of the chain
EvalNextField(recv, name, strict) ==
  IF ~recv.ok THEN Fail
  ELSE IF ~recv.valid THEN (IF strict THEN Fail ELSE Invalid)
  ELSE IF recv.val.t = "map"
       \* the nested maps of the model hold no key an identifier token names
       THEN (IF strict THEN Fail ELSE Invalid)
       ELSE Fail     \* nil, or a value with no fields

RECURSIVE EvalRest(_, _, _)
EvalRest(recv, chain, strict) ==
  IF chain = <<>> THEN recv
  ELSE EvalRest(EvalNextField(recv, Head(chain), strict), Tail(chain), strict)

\* evalFieldChain without arguments
EvalChain(m, chain, strict) ==
  EvalRest(EvalTopField(m, Head(chain), strict), Tail(chain), strict)

\* evalFieldChain when the command has further operands: only a receiver
\* that is already invalid escapes "is not a method but has arguments"
EvalChainArgs(m, chain, strict) ==
  LET n == Len(chain)
      recv == IF n = 1 THEN Found(VMap)
              ELSE EvalChain(m, SubSeq(chain, 1, n - 1), strict)
  IN IF recv.ok /\ ~recv.valid /\ ~strict THEN Invalid ELSE Fail

KeyOrder == <<"a", "z">>

RECURSIVE SprintEntries(_, _)
SprintEntries(m, i) ==
  IF i > Len(KeyOrder) THEN <<>>
  ELSE (IF KeyOrder[i] \in DOMAIN m
        THEN <<KeyOrder[i], ":">> \o Sprint(m[KeyOrder[i]])
        ELSE <<>>) \o SprintEntries(m, i + 1)

\* fmt.Sprint of the mapping itself, keys in order
SprintMap(m) == <<"map[">> \o SprintEntries(m, 1) \o <<"]">>

\* printValue: what an action writes for its result
PrintValue(r) ==
  IF ~r.valid \/ r.val.t = "nil" THEN <<"<no value>">> ELSE Sprint(r.val)

\* one action: its output text, or a failure
ExecAction(m, ops, strict) ==
  LET r == IF Len(ops) > 1
           THEN (IF ops[1] = <<>> THEN Fail ELSE EvalChainArgs(m, ops[1], strict))
           ELSE IF ops[1] = <<>> THEN Found(Str(SprintMap(m)))
           ELSE EvalChain(m, ops[1], strict)
  IN [ok |-> r.ok, out |-> IF r.ok THEN PrintValue(r) ELSE <<>>]

RECURSIVE ExecNodes(_, _, _, _)
\* tmpl.Execute: the text written, or a failure
ExecNodes(nodes, m, strict, out) ==
  IF nodes = <<>> THEN [ok |-> TRUE, out |-> out]
  ELSE LET nd == Head(nodes) IN
       IF nd.k = "text" THEN ExecNodes(Tail(nodes), m, strict, out \o nd.txt)
       ELSE LET r == ExecAction(m, nd.ops, strict) IN
            IF ~r.ok THEN [ok |-> FALSE, out |-> <<>>]
            ELSE ExecNodes(Tail(nodes), m, strict, out \o r.out)

\* Parse then Execute
RunTemplate(text, m, strict) ==
  LET p == ParseNodes(text, <<>>, <<>>) IN
  IF ~p.ok THEN [ok |-> FALSE, out |-> <<>>]
  ELSE ExecNodes(p.nodes, m, strict, <<>>)

(***************************************************************************)
(* Placeholder resolver and value encoder, one definition per revision.    *)
(***************************************************************************)
Resolved(v) == [err |-> FALSE, val |-> v]
ResolveFailed == [err |-> TRUE, val |-> VNil]

\* the fast path shared by both revisions' resolvers
FastPath(text, m) ==
  LET matches == FindStringSubmatch(text) IN
  Len(matches) = 2 /\ HasKey(m, matches[2])

\* A faulty variant of getCellValueFromTemplate: no fast path, every cell goes
\* through the text template
getCellValueFromTemplateAsText(text, m) ==
  LET r == RunTemplate(text, m, FALSE) IN
  IF r.ok THEN Resolved(Str(r.out)) ELSE ResolveFailed

\* generator.go: the fallback template has no missingkey option
getCellValueFromTemplate(text, m) ==
  IF FastPath(text, m) THEN Resolved(m[FindStringSubmatch(text)[2][1]])
  ELSE LET r == RunTemplate(text, m, FALSE) IN
       IF r.ok THEN Resolved(Str(r.out)) ELSE ResolveFailed

\* part_004: the fallback template runs with missingkey=error
processTemplate(text, m) ==
  IF FastPath(text, m) THEN Resolved(m[FindStringSubmatch(text)[2][1]])
  ELSE LET r == RunTemplate(text, m, TRUE) IN
       IF r.ok THEN Resolved(Str(r.out)) ELSE ResolveFailed

\* generator.go: maps and slices (byte slices among them) become JSON text
encodeMapsAndSlices(v) ==
  IF v.t = "nil" THEN Resolved(VNil)
  ELSE IF v.t \in {"map", "slice", "bytes"}
       THEN (IF MarshalFails(v) THEN ResolveFailed ELSE Resolved(Str(Marshal(v))))
       ELSE Resolved(v)

\* part_004: byte slices become their text, other maps and slices JSON text
encodeComplexTypes(v) ==
  IF v.t = "nil" THEN Resolved(VNil)
  ELSE IF v.t = "bytes" THEN Resolved(Str(v.v))
  ELSE IF v.t \in {"map", "slice"}
       THEN (IF MarshalFails(v) THEN ResolveFailed ELSE Resolved(Str(Marshal(v))))
       ELSE Resolved(v)

(***************************************************************************)
(* Errors: the chain of wrapped errors, outermost first.  The text of an   *)
(* error names everything its layers name; errors.Is looks at every layer. *)
(***************************************************************************)
Layer(k, sh, r, p) == [k |-> k, s |-> sh, r |-> r, p |-> p]
NoErr == <<>>
ErrIs(e, k) == \E i \in 1..Len(e) : e[i].k = k
\* fmt.Errorf("...: %w", ...) around e
Wrap(l, e) == <<l>> \o e

CtxErr(c) == <<Layer(c, "", 0, <<>>)>>

(***************************************************************************)
(* The run's inputs: configuration, query files, templates.                *)
(***************************************************************************)
\* the reference column names of the runs; Config.Valid accepts each
RefColumns == {<<"B">>, <<"X", "F", "E">>}
QueriesDir == <<<<"q">>>>

LowerLetters == <<"a", "b", "c", "d", "e", "f", "g", "h", "i", "j", "k", "l", "m",
                  "n", "o", "p", "q", "r", "s", "t", "u", "v", "w", "x", "y", "z">>

\* the number of a letter of either case, 0 for any other character
LetterNumber(l) ==
  IF \E i \in 1..Len(Letters) : Letters[i] = l \/ LowerLetters[i] = l
  THEN CHOOSE i \in 1..Len(Letters) : Letters[i] = l \/ LowerLetters[i] = l
  ELSE 0

RECURSIVE ColumnNameToNumber(_)
\* excelize.ColumnNameToNumber; 0 stands for its error
ColumnNameToNumber(name) ==
  IF name = <<>> THEN 0
  ELSE LET l == name[Len(name)]
           init == SubSeq(name, 1, Len(name) - 1)
           hi == IF init = <<>> THEN 0 ELSE ColumnNameToNumber(init)
       IN IF LetterNumber(l) = 0 \/ (init # <<>> /\ hi = 0)
          THEN 0
          ELSE LET n == hi * Len(Letters) + LetterNumber(l)
               IN IF n > 16384 THEN 0 ELSE n

\* the query files on disk: "file", "dir" (a read fails) or "missing"
FileKind(p) ==
  CASE p \in {<<<<"q">>, <<"ok.sql">>>>, <<<<"q">>, <<"all.sql">>>>,
              <<<<"q">>, <<"empty.sql">>>>, <<<<"up.sql">>>>} -> "file"
    [] p \in {<<<<"q">>, <<"sub">>>>, <<<<"q">>>>} -> "dir"
    [] OTHER -> "missing"

FileText(p) ==
  CASE p = <<<<"q">>, <<"ok.sql">>>> -> <<WS, "SELECT 1", WS>>
    [] p = <<<<"up.sql">>>> -> <<"SELECT 2">>
    [] p = <<<<"q">>, <<"all.sql">>>> -> <<"SELECT 3">>
    [] OTHER -> <<WS>>

\* cell texts
TA == <<Open, WS, Dot, "a", WS, Close>>
TZ == <<Open, Dot, "z", Close>>
TMulti == <<"a", Open, Dot, "a", Close, Open, Dot, "z", Close>>
TOpen == <<Open, Dot, "a">>
TPlain == <<"a">>

\* rows as GetRows returns them; the reference column is the second
CoreRows ==
  { <<TA>>,
    <<TZ, <<WS, "ok.sql">>, TA>>,
    <<TPlain, <<"missing.sql">>, TA>> }

RowPool ==
  CoreRows \cup
  { <<TMulti, <<WS>>, TZ>>,
    <<TA, <<"all.sql">>, TMulti, TPlain, TOpen, TZ>>,
    <<TZ, <<"..", Sep, "up.sql">>, TOpen>>,
    <<TA, <<"empty.sql">>>>,
    <<TA, <<Sep, "ok.sql">>>>,
    <<TA, <<"sub">>>> }

SheetNames == <<"S1", "S2">>

RECURSIVE SumLen(_)
SumLen(ss) == IF ss = <<>> THEN 0 ELSE Len(Head(ss)) + SumLen(Tail(ss))

RowSeqs == UNION {[1..n -> CoreRows] : n \in 0..MaxRows}

\* a template: the rows of each of its sheets, in workbook order.  Every row
\* of the pool alone, and every arrangement of at most MaxRows core rows in
\* which a sheet after the first holds at most one row.
Templates ==
  {t \in UNION {[1..n -> RowSeqs] : n \in 0..Len(SheetNames)} :
     SumLen(t) <= MaxRows /\ \A i \in 2..Len(t) : Len(t[i]) <= 1}
    \cup {<<<<row>>>> : row \in RowPool}

\* what the data source may answer to a query
M0 == [k \in {} |-> VNil]
\* a string whose text is the placeholder that asks for it
VEcho == Val("str", TZ)
FieldMaps(query) ==
  CASE query = <<"SELECT 1">> -> {"a" :> VNum, ("a" :> VMap) @@ ("z" :> VStr)}
    [] query = <<"SELECT 2">> -> {("a" :> VStr) @@ ("z" :> VBool),
                                  ("a" :> VBool) @@ ("z" :> VBytes),
                                  ("a" :> VNum) @@ ("z" :> VSlice)}
    [] OTHER -> {("a" :> VNaNMap) @@ ("z" :> VTime), ("a" :> VTime) @@ ("z" :> VNil),
                 ("a" :> VNum) @@ ("z" :> VEcho)}

FetchOutcomes(query) ==
  {[k |-> "ok", m |-> m] : m \in FieldMaps(query) \cup {M0}}
    \cup {[k |-> e, m |-> M0] :
             e \in {"norows", "ctx", IF query = <<"SELECT 1">> THEN "multi" ELSE "dberr"}}

\* the columns whose SetCellValue fails in one row: none or one
WriteFailChoices(row) == {{}} \cup {{c} : c \in 1..Len(row)}

(***************************************************************************)
(* The workbook                                                            *)
(***************************************************************************)
\* the workbook a template file holds: every cell a text
FileOf(t) == [s \in 1..Len(t) |-> [r \in 1..Len(t[s]) |->
                [c \in 1..Len(t[s][r]) |-> Str(t[s][r][c])]]]

\* the text GetRows gives for a cell
CellText(v) == IF v.t = "nil" THEN <<>> ELSE v.v

\* File.GetRows
GetRows(w, s) == [r \in 1..Len(w[s]) |-> [c \in 1..Len(w[s][r]) |-> CellText(w[s][r][c])]]

\* File.SetCellValue on a cell of a row GetRows returned
SetCellValue(w, s, r, c, v) == [w EXCEPT ![s][r][c] = v]

(***************************************************************************)
(* processRow.  env is what the row meets outside the program: fetch, the  *)
(* data source's answer if it is asked, and wf, the columns whose          *)
(* SetCellValue fails.  The result carries the workbook, the error         *)
(* returned and what the row did: the path read, the query sent, the       *)
(* columns written and those whose write failed.                           *)
(***************************************************************************)
RowResult(w, ret, path, read, query, called, fetch, wrote, failed) ==
  [wb |-> w, ret |-> ret, path |-> path, read |-> read, query |-> query,
   called |-> called, fetch |-> fetch, wrote |-> wrote, failed |-> failed]

\* a row without a reference: nothing read, asked or written
Untouched(w) ==
  RowResult(w, NoErr, <<>>, FALSE, <<>>, FALSE, [k |-> "none", m |-> M0], {}, {})

\* A faulty variant of HasReference: the cell is not trimmed
HasReferenceUntrimmed(rowCells, sqlColNum) ==
  Len(rowCells) >= sqlColNum /\ rowCells[sqlColNum] # <<>>

\* the row has a reference: long enough, and the cell is not blank
HasReference(rowCells, sqlColNum) ==
  Len(rowCells) >= sqlColNum /\ TrimSpace(rowCells[sqlColNum]) # <<>>

\* the error a failed fetch returns, as the data source wraps it
FetchError(fetch, ctxNow) ==
  CASE fetch.k = "norows" -> <<Layer("norows", "", 0, <<>>)>>
    [] fetch.k = "multi" -> <<Layer("multirows", "", 0, <<>>), Layer("pgx", "", 0, <<>>)>>
    [] fetch.k = "ctx" -> Wrap(Layer("execquery", "", 0, <<>>), CtxErr(ctxNow))
    [] OTHER -> <<Layer("execquery", "", 0, <<>>), Layer("pgx", "", 0, <<>>)>>

\* A faulty variant of IsNoRows: "no rows" is not told from other errors
IsNoRowsNever(fetch) == FALSE

\* errors.Is(err, datasource.ErrQueryReturnedNoRows)
IsNoRows(fetch) == fetch.k = "norows"

LoopResult(w, ret, wrote, failed) ==
  [wb |-> w, ret |-> ret, wrote |-> wrote, failed |-> failed]

\* the result of a row whose fetch gave a mapping with fields: that of its
\* cell loop l
Replaced(l, path, query, fetch) ==
  RowResult(l.wb, l.ret, path, TRUE, query, TRUE, fetch, l.wrote, l.failed)

\* A faulty variant of ClearReference: the cell is never cleared
ClearReferenceSkipped(w, s, r, sqlColNum, wf) == w

\* the clearing of the reference cell, which may fail
ClearReference(w, s, r, sqlColNum, wf) ==
  IF sqlColNum \in wf THEN w ELSE SetCellValue(w, s, r, sqlColNum, VNil)

RECURSIVE replaceCells(_, _, _, _, _, _, _, _, _, _)
RECURSIVE writeEncoded(_, _, _, _, _, _, _, _, _, _, _)
RECURSIVE writeResolved(_, _, _, _, _, _, _, _, _, _, _)

\* A faulty variant of writeEncoded: the value is written though its text is
\* the cell's
writeEncodedAlways(w, s, r, rowCells, sqlColNum, m, wf, c, wrote, failed, enc) ==
  IF enc.err
  THEN LoopResult(w, <<Layer("encode", "", 0, <<>>), Layer("marshal", "", 0, <<>>)>>,
                  wrote, failed)
  ELSE IF c \in wf
  THEN replaceCells(w, s, r, rowCells, sqlColNum, m, wf, c + 1, wrote, failed \cup {c})
  ELSE replaceCells(SetCellValue(w, s, r, c, enc.val), s, r, rowCells, sqlColNum, m, wf,
                    c + 1, wrote \cup {c}, failed)

\* generator.go, lines 276-289: cell c, whose resolved value encoded to enc
writeEncoded(w, s, r, rowCells, sqlColNum, m, wf, c, wrote, failed, enc) ==
  IF enc.err
  THEN LoopResult(w, <<Layer("encode", "", 0, <<>>), Layer("marshal", "", 0, <<>>)>>,
                  wrote, failed)
  ELSE IF Sprint(enc.val) = rowCells[c]
  THEN replaceCells(w, s, r, rowCells, sqlColNum, m, wf, c + 1, wrote, failed)
  ELSE IF c \in wf
  THEN replaceCells(w, s, r, rowCells, sqlColNum, m, wf, c + 1, wrote, failed \cup {c})
  ELSE replaceCells(SetCellValue(w, s, r, c, enc.val), s, r, rowCells, sqlColNum, m, wf,
                    c + 1, wrote \cup {c}, failed)

\* generator.go, lines 264-280: cell c, whose text resolved to processed
writeResolved(w, s, r, rowCells, sqlColNum, m, wf, c, wrote, failed, processed) ==
  IF processed.err
  THEN replaceCells(w, s, r, rowCells, sqlColNum, m, wf, c + 1, wrote, failed)
  ELSE writeEncoded(w, s, r, rowCells, sqlColNum, m, wf, c, wrote, failed,
                    encodeMapsAndSlices(processed.val))

\* generator.go, lines 251-290: the cells from column c on
replaceCells(w, s, r, rowCells, sqlColNum, m, wf, c, wrote, failed) ==
  IF c > Len(rowCells) THEN LoopResult(w, NoErr, wrote, failed)
  ELSE IF c = sqlColNum \/ rowCells[c] = <<>>
  THEN replaceCells(w, s, r, rowCells, sqlColNum, m, wf, c + 1, wrote, failed)
  ELSE IF ~Contains(rowCells[c], Open) \/ ~Contains(rowCells[c], Close)
  THEN replaceCells(w, s, r, rowCells, sqlColNum, m, wf, c + 1, wrote, failed)
  ELSE writeResolved(w, s, r, rowCells, sqlColNum, m, wf, c, wrote, failed,
                     getCellValueFromTemplate(rowCells[c], m))

\* A faulty variant of processReference: a query file that is blank is sent
\* to the data source like any other
processReferenceAsking(w, s, r, rowCells, sqlColNum, env, sqlFilePath) ==
  LET w1 == ClearReference(w, s, r, sqlColNum, env.wf)
      wrote1 == {sqlColNum} \ env.wf
      failed1 == {sqlColNum} \cap env.wf
      none == [k |-> "none", m |-> M0]
      query == FileText(sqlFilePath)
  IN
  IF FileKind(sqlFilePath) = "missing"
  THEN RowResult(w1, <<Layer("sqlnotfound", "", 0, sqlFilePath)>>, sqlFilePath,
                 TRUE, <<>>, FALSE, none, wrote1, failed1)
  ELSE IF FileKind(sqlFilePath) = "dir"
  THEN RowResult(w1, <<Layer("readsql", "", 0, sqlFilePath), Layer("os", "", 0, <<>>)>>,
                 sqlFilePath, TRUE, <<>>, FALSE, none, wrote1, failed1)
  ELSE IF env.fetch.k # "ok"
  THEN RowResult(w1, NoErr, sqlFilePath, TRUE, query, TRUE, env.fetch, wrote1, failed1)
  ELSE IF DOMAIN env.fetch.m = {}
  THEN RowResult(w1, NoErr, sqlFilePath, TRUE, query, TRUE, env.fetch, wrote1, failed1)
  ELSE Replaced(replaceCells(w1, s, r, rowCells, sqlColNum, env.fetch.m, env.wf, 1,
                             wrote1, failed1),
                sqlFilePath, query, env.fetch)

\* generator.go, lines 179-293: the row's reference names sqlFilePath
processReference(w, s, r, rowCells, sqlColNum, env, sqlFilePath) ==
  LET w1 == ClearReference(w, s, r, sqlColNum, env.wf)
      wrote1 == {sqlColNum} \ env.wf
      failed1 == {sqlColNum} \cap env.wf
      none == [k |-> "none", m |-> M0]
      query == FileText(sqlFilePath)
  IN
  IF FileKind(sqlFilePath) = "missing"
  THEN RowResult(w1, <<Layer("sqlnotfound", "", 0, sqlFilePath)>>, sqlFilePath,
                 TRUE, <<>>, FALSE, none, wrote1, failed1)
  ELSE IF FileKind(sqlFilePath) = "dir"
  THEN RowResult(w1, <<Layer("readsql", "", 0, sqlFilePath), Layer("os", "", 0, <<>>)>>,
                 sqlFilePath, TRUE, <<>>, FALSE, none, wrote1, failed1)
  ELSE IF TrimSpace(query) = <<>>
  THEN RowResult(w1, NoErr, sqlFilePath, TRUE, <<>>, FALSE, none, wrote1, failed1)
  ELSE IF env.fetch.k # "ok"
  \* any fetch error: warn and skip the row's replacements
  THEN RowResult(w1, NoErr, sqlFilePath, TRUE, query, TRUE, env.fetch, wrote1, failed1)
  ELSE IF DOMAIN env.fetch.m = {}
  THEN RowResult(w1, NoErr, sqlFilePath, TRUE, query, TRUE, env.fetch, wrote1, failed1)
  ELSE Replaced(replaceCells(w1, s, r, rowCells, sqlColNum, env.fetch.m, env.wf, 1,
                             wrote1, failed1),
                sqlFilePath, query, env.fetch)

\* generator.go: processRow
processRow(w, s, r, rowCells, sqlColNum, queryBaseDir, env, ctxNow) ==
  IF ~HasReference(rowCells, sqlColNum) THEN Untouched(w)
  ELSE processReference(w, s, r, rowCells, sqlColNum, env,
                        JoinClean(queryBaseDir, TrimSpace(rowCells[sqlColNum])))

RECURSIVE replaceCells4(_, _, _, _, _, _, _, _, _, _)
RECURSIVE writeEncoded4(_, _, _, _, _, _, _, _, _, _, _)
RECURSIVE writeResolved4(_, _, _, _, _, _, _, _, _, _, _)

\* part_004, lines 320-343: cell c, whose resolved value encoded to enc
writeEncoded4(w, s, r, rowCells, sqlColNum, m, wf, c, wrote, failed, enc) ==
  IF enc.err \/ Sprint(enc.val) = rowCells[c]
  THEN replaceCells4(w, s, r, rowCells, sqlColNum, m, wf, c + 1, wrote, failed)
  ELSE IF c \in wf
  THEN replaceCells4(w, s, r, rowCells, sqlColNum, m, wf, c + 1, wrote, failed \cup {c})
  ELSE replaceCells4(SetCellValue(w, s, r, c, enc.val), s, r, rowCells, sqlColNum, m, wf,
                     c + 1, wrote \cup {c}, failed)

\* A faulty variant of writeResolved4: a resolver failure ends the row with an
\* error
writeResolved4Fatal(w, s, r, rowCells, sqlColNum, m, wf, c, wrote, failed, processed) ==
  IF processed.err
  THEN LoopResult(w, <<Layer("template", "", 0, <<>>)>>, wrote, failed)
  ELSE writeEncoded4(w, s, r, rowCells, sqlColNum, m, wf, c, wrote, failed,
                     encodeComplexTypes(processed.val))

\* part_004, lines 306-329: cell c, whose text resolved to processed
writeResolved4(w, s, r, rowCells, sqlColNum, m, wf, c, wrote, failed, processed) ==
  IF processed.err
  THEN replaceCells4(w, s, r, rowCells, sqlColNum, m, wf, c + 1, wrote, failed)
  ELSE writeEncoded4(w, s, r, rowCells, sqlColNum, m, wf, c, wrote, failed,
                     encodeComplexTypes(processed.val))

\* part_004, lines 299-344: the cells from column c on
replaceCells4(w, s, r, rowCells, sqlColNum, m, wf, c, wrote, failed) ==
  IF c > Len(rowCells) THEN LoopResult(w, NoErr, wrote, failed)
  ELSE IF c = sqlColNum \/ ~Contains(rowCells[c], Open)
  THEN replaceCells4(w, s, r, rowCells, sqlColNum, m, wf, c + 1, wrote, failed)
  ELSE writeResolved4(w, s, r, rowCells, sqlColNum, m, wf, c, wrote, failed,
                      processTemplate(rowCells[c], m))

\* part_004, lines 231-348: the row's reference names sqlFilePathAbsolute
processReference4(w, s, r, rowCells, sqlColNum, env, ctxNow, sqlFilePathAbsolute) ==
  LET w1 == ClearReference(w, s, r, sqlColNum, env.wf)
      wrote1 == {sqlColNum} \ env.wf
      failed1 == {sqlColNum} \cap env.wf
      none == [k |-> "none", m |-> M0]
      trimmedQuery == TrimSpace(FileText(sqlFilePathAbsolute))
  IN
  IF FileKind(sqlFilePathAbsolute) = "missing"
  THEN RowResult(w1, <<Layer("sqlnotfound", "", 0, sqlFilePathAbsolute)>>,
                 sqlFilePathAbsolute, TRUE, <<>>, FALSE, none, wrote1, failed1)
  ELSE IF FileKind(sqlFilePathAbsolute) = "dir"
  THEN RowResult(w1, <<Layer("readsql", "", 0, sqlFilePathAbsolute), Layer("os", "", 0, <<>>)>>,
                 sqlFilePathAbsolute, TRUE, <<>>, FALSE, none, wrote1, failed1)
  ELSE IF trimmedQuery = <<>>
  THEN RowResult(w1, NoErr, sqlFilePathAbsolute, TRUE, <<>>, FALSE, none, wrote1, failed1)
  ELSE IF IsNoRows(env.fetch)
  THEN RowResult(w1, NoErr, sqlFilePathAbsolute, TRUE, trimmedQuery, TRUE, env.fetch,
                 wrote1, failed1)
  ELSE IF env.fetch.k # "ok"
  THEN RowResult(w1, Wrap(Layer("fetch", "", 0, sqlFilePathAbsolute),
                          FetchError(env.fetch, ctxNow)),
                 sqlFilePathAbsolute, TRUE, trimmedQuery, TRUE, env.fetch, wrote1, failed1)
  ELSE IF DOMAIN env.fetch.m = {}
  THEN RowResult(w1, NoErr, sqlFilePathAbsolute, TRUE, trimmedQuery, TRUE, env.fetch,
                 wrote1, failed1)
  ELSE Replaced(replaceCells4(w1, s, r, rowCells, sqlColNum, env.fetch.m, env.wf, 1,
                              wrote1, failed1),
                sqlFilePathAbsolute, trimmedQuery, env.fetch)

\* part_004: processRow
processRow4(w, s, r, rowCells, sqlColNum, queryBaseDir, env, ctxNow) ==
  IF ~HasReference(rowCells, sqlColNum) THEN Untouched(w)
  ELSE processReference4(w, s, r, rowCells, sqlColNum, env, ctxNow,
                         JoinClean(queryBaseDir, TrimSpace(rowCells[sqlColNum])))

(***************************************************************************)
(* The run                                                                 *)
(***************************************************************************)
VARIABLES
  rev,      \* the generator revision: "generator.go" or "part_004"
  tmpl,     \* the template file: the rows of each sheet
  outFile,  \* the output file on disk
  wb,       \* the workbook in memory, once opened
  handle,   \* the workbook handle: "none", "open", "closed"
  pc,       \* where GenerateReport stands
  si,       \* index of the sheet in hand
  ri,       \* index of the row in hand
  rows,     \* the rows GetRows returned for the sheet in hand
  ctx,      \* the generation context: "live", "deadline", "canceled"
  err,      \* the error GenerateReport returned
  log,      \* one record per processRow call, in call order
  result,   \* what each entry point returns
  column,   \* the configuration's reference column name
  closes,   \* how many times the workbook handle was closed
  lib,      \* how UpdateLinkedValue and Save ended: "none", "ok", "failed"
  sameFile  \* whether the output path names the template file

\* The data source: one PostgresDataSource and the calls made on it
VARIABLES
  dsRev,      \* the data source revision: "postgres.go" or "part_002"
  closed,     \* p.closed
  pool,       \* p.pool: "open" or "closed"
  poolCloses, \* how many times p.pool.Close() ran
  fetches,    \* the FetchData calls
  closers     \* the Close calls: "idle", "closing", "returned"

dsVars == <<dsRev, closed, pool, poolCloses, fetches, closers>>

\* GenerateReport run a second time on the same inputs
VARIABLES
  runNo,    \* which run of GenerateReport this is: 1 or 2
  first     \* what the first run left: the output file, its log, its error

\* The configuration: flags and environment, loaded, validated, normalized
VARIABLES
  cfgRev,   \* the configuration revision: "cli.go", "part_001a", "part_001b"
  args,     \* the command line: for each setting, whether its flag is given
  environ,  \* the environment: for each setting, its variable's text
  exists,   \* the file system: whether the template and the queries directory exist
  cfgPc,    \* where the configuration stands
  cfg,      \* the configuration's settings, as loaded
  normalizedCfg, \* what Normalize returned
  cfgErr    \* the error that ended the pipeline

cfgVars == <<cfgRev, args, environ, exists, cfgPc, cfg, normalizedCfg, cfgErr>>

vars == <<rev, tmpl, outFile, wb, handle, pc, si, ri, rows, ctx, err, log, result,
          column, closes, lib, sameFile, runNo, first, dsVars, cfgVars>>

\* g.config.DataSourceRefColumn
DataSourceRefColumn == column

Revs == {"generator.go", "part_004"}
Mains == {"main.go", "part_007"}
Done == {"deadline", "canceled"}

\* Largest number of FetchData calls, and of Close calls, on the data source.
MaxFetches == 2
MaxCloses == 2

\* a FetchData call: where it stands ("idle", "query", "done"), the query it
\* hands to the pool, whether a Close had returned when it began, the state
\* of the pool its query ran on ("no" when none ran), and what it returned
NoCall == [pc |-> "idle", query |-> <<>>, late |-> FALSE, ran |-> "no",
           ret |-> NoErr, m |-> M0]

\* the data source as NewPostgresDataSource returns it, no call made
DSInit ==
  /\ closed = FALSE
  /\ pool = "open"
  /\ poolCloses = 0
  /\ fetches = [i \in 1..MaxFetches |-> NoCall]
  /\ closers = [j \in 1..MaxCloses |-> "idle"]

\* the output path names no file yet
NoOutput ==
  /\ sameFile = FALSE
  /\ outFile = [exists |-> FALSE, data |-> <<>>]

\* GenerateReport not yet called
GenInit ==
  /\ wb = <<>>
  /\ handle = "none"
  /\ pc = "start"
  /\ si = 0
  /\ ri = 0
  /\ rows = <<>>
  /\ ctx = "live"
  /\ err = NoErr
  /\ log = <<>>
  /\ result = [m \in Mains |-> NoErr]
  /\ closes = 0
  /\ lib = [linked |-> "none", saved |-> "none"]
  /\ runNo = 1
  /\ first = [out |-> [exists |-> FALSE, data |-> <<>>], log |-> <<>>, err |-> NoErr]

\* the settings of a configuration
Settings == {"dsn", "template", "refcol", "queries", "output", "timeout"}
NotGiven == [given |-> FALSE, v |-> <<>>]
Given(v) == [given |-> TRUE, v |-> v]

\* Config{}
ZeroConfig ==
  [dsn |-> <<>>, template |-> <<>>, refcol |-> <<>>, queries |-> <<>>,
   output |-> <<>>, timeout |-> 0]

\* the zero Config, nothing loaded
CfgInit ==
  /\ cfgPc = "load"
  /\ cfg = ZeroConfig
  /\ normalizedCfg = ZeroConfig
  /\ cfgErr = [k |-> "none", problems |-> {}]

\* no flag given, no variable set
NoInput ==
  /\ cfgRev = "cli.go"
  /\ args = [k \in Settings |-> NotGiven]
  /\ environ = [k \in Settings |-> <<>>]
  /\ exists = [template |-> TRUE, queries |-> TRUE]

Init ==
  /\ rev \in Revs
  /\ tmpl \in Templates
  /\ column \in RefColumns
  /\ sameFile \in BOOLEAN
  /\ outFile = IF sameFile THEN [exists |-> TRUE, data |-> FileOf(tmpl)]
               ELSE [exists |-> FALSE, data |-> <<>>]
  /\ GenInit
  /\ dsRev = "postgres.go"
  /\ DSInit
  /\ NoInput
  /\ CfgInit

\* "processing sheet %q: %w"
SheetLayer(s) == Layer("sheet", SheetNames[s], 0, <<>>)

\* A faulty variant of RowLayer: the row number is left out of the message
RowLayerUnnumbered(r) == Layer("row", "", 0, <<>>)

\* "processing row %d: %w"
RowLayer(r) == Layer("row", "", r, <<>>)

\* an error of the workbook library or the file system
Lib(k) == <<Layer(k, "", 0, <<>>), Layer("lib", "", 0, <<>>)>>

\* A faulty variant of beforeRowError: the context's error is formatted into the
\* message, not wrapped
beforeRowErrorUnwrapped(s, r, c) ==
  <<SheetLayer(s), Layer("beforerow", SheetNames[s], r, <<>>)>>

\* processSheet's error when the context is done before row r of sheet s:
\* "processing interrupted on sheet %q, before row %d: %w", wrapped by
\* GenerateReport
beforeRowError(s, r, c) ==
  <<SheetLayer(s), Layer("beforerow", SheetNames[s], r, <<>>)>> \o CtxErr(c)

\* A faulty variant of run: the error is compared with the context errors directly,
\* not with errors.Is
runComparingDirectly(e) ==
  IF e = NoErr THEN NoErr
  ELSE IF e = CtxErr("deadline") THEN <<Layer("timedout", "", 0, <<>>)>>
  ELSE IF e = CtxErr("canceled") THEN <<Layer("cancelled", "", 0, <<>>)>>
  ELSE Wrap(Layer("reportgeneration", "", 0, <<>>), e)

\* main.go: run, from the return of GenerateReport
run(e) ==
  IF e = NoErr THEN NoErr
  ELSE IF ErrIs(e, "deadline") THEN <<Layer("timedout", "", 0, <<>>)>>
  ELSE IF ErrIs(e, "canceled") THEN <<Layer("cancelled", "", 0, <<>>)>>
  ELSE Wrap(Layer("reportgeneration", "", 0, <<>>), e)

\* part_007: runExcalibur, from the return of GenerateReport
runExcalibur(e, runCtxCanceled) ==
  IF e = NoErr THEN NoErr
  ELSE IF ErrIs(e, "deadline") THEN <<Layer("timedout", "", 0, <<>>)>>
  ELSE IF ErrIs(e, "canceled")
       THEN (IF runCtxCanceled THEN <<Layer("cancelledbysignal", "", 0, <<>>)>>
             ELSE Wrap(Layer("cancelled", "", 0, <<>>), e))
  ELSE Wrap(Layer("reportgeneration", "", 0, <<>>), e)

\* GenerateReport returns e to its caller, which reports the outcome; c is
\* the context then
Report(e, c) ==
  /\ err' = e
  /\ pc' = "returned"
  /\ result' = [m \in Mains |->
                  IF m = "main.go" THEN run(e) ELSE runExcalibur(e, c = "canceled")]

\* A faulty variant of Return: the handle is left open
ReturnLeavingOpen(e, c) ==
  /\ Report(e, c)
  /\ UNCHANGED <<handle, closes>>

\* GenerateReport returns e after the workbook was opened: the deferred
\* Close runs
Return(e, c) ==
  /\ Report(e, c)
  /\ handle' = "closed"
  /\ closes' = closes + 1

\* A faulty variant of copyFile: a destination that exists is left as it is
copyFileKeeping(src, dst) ==
  IF dst.exists THEN dst ELSE [exists |-> TRUE, data |-> src]

\* copyFile, when it succeeds: the destination is created or truncated and
\* holds the source's content
copyFile(src, dst) == [exists |-> TRUE, data |-> src]

\* what io.Copy reads from the template: os.Create has truncated the
\* destination by then, so nothing when the destination is the template
Source == IF sameFile THEN <<>> ELSE FileOf(tmpl)

\* GenerateReport up to the sheet loop: copy, open, sheet list, column.  A
\* file of no bytes is no workbook, OpenFile fails on it.
Start ==
  /\ pc = "start"
  /\ \E io \in {"ok", "copyfail", "openfail"} :
       IF io = "copyfail"
       THEN /\ Report(Lib("copy"), ctx)
            /\ UNCHANGED <<outFile, wb, handle, closes, si>>
       ELSE /\ outFile' = copyFile(Source, outFile)
            /\ IF io = "openfail" \/ sameFile
               THEN /\ Report(Lib("open"), ctx)
                    /\ UNCHANGED <<wb, handle, closes, si>>
               ELSE /\ wb' = copyFile(Source, outFile).data
                    /\ IF Len(wb') = 0
                       THEN /\ Return(<<Layer("nosheets", "", 0, <<>>)>>, ctx)
                            /\ UNCHANGED si
                       ELSE IF ColumnNameToNumber(DataSourceRefColumn) = 0
                       THEN /\ Return(Lib("refcol"), ctx)
                            /\ UNCHANGED si
                       ELSE /\ pc' = "sheet"
                            /\ si' = 1
                            /\ handle' = "open"
                            /\ UNCHANGED <<err, result, closes>>
  /\ UNCHANGED <<rev, tmpl, ri, rows, ctx, log, column, lib>>
  /\ UNCHANGED <<runNo, first, sameFile>>
  /\ UNCHANGED dsVars
  /\ UNCHANGED cfgVars

\* processSheet: GetRows
Sheet ==
  /\ pc = "sheet"
  /\ si <= Len(wb)
  /\ \E got \in BOOLEAN :
       IF got
       THEN /\ rows' = GetRows(wb, si)
            /\ ri' = 1
            /\ pc' = "row"
            /\ UNCHANGED <<err, handle, closes, result>>
       ELSE /\ Return(<<SheetLayer(si), Layer("getrows", SheetNames[si], 0, <<>>),
                        Layer("lib", "", 0, <<>>)>>, ctx)
            /\ UNCHANGED <<rows, ri>>
  /\ UNCHANGED <<rev, tmpl, outFile, wb, si, ctx, log, column, lib>>
  /\ UNCHANGED <<runNo, first, sameFile>>
  /\ UNCHANGED dsVars
  /\ UNCHANGED cfgVars

\* the processRow of the revision in use
RowOf(env, ctxNow) ==
  LET n == ColumnNameToNumber(DataSourceRefColumn) IN
  IF rev = "generator.go"
  THEN processRow(wb, si, ri, rows[ri], n, QueriesDir, env, ctxNow)
  ELSE processRow4(wb, si, ri, rows[ri], n, QueriesDir, env, ctxNow)

\* the query the row hands to the data source, as FetchData trims it
QueryOf ==
  TrimSpace(RowOf([fetch |-> [k |-> "norows", m |-> M0], wf |-> {}], "canceled").query)

\* In a second run the data source answers a row's query as it answered it
\* in the first, and SetCellValue fails on the cells it failed on.
Replays(fetch, wf) ==
  (runNo = 2 /\ Len(log) < Len(first.log)) =>
    \E e \in {first.log[Len(log) + 1]} :
      /\ e.called => fetch = e.fetch
      /\ wf = e.failed

LogEntry(res) ==
  [s |-> si, r |-> ri, ret |-> res.ret, path |-> res.path, read |-> res.read,
   query |-> res.query, called |-> res.called, fetch |-> res.fetch,
   wrote |-> res.wrote, failed |-> res.failed]

\* A faulty variant of Row: the workbook is written to the output file after
\* each row
RowSaving ==
  /\ pc = "row"
  /\ ri <= Len(rows)
  /\ IF ctx # "live"
     THEN /\ Return(beforeRowError(si, ri, ctx), ctx)
          /\ UNCHANGED <<wb, ri, ctx, log, outFile>>
     ELSE \E fetch \in FetchOutcomes(QueryOf),
             wf \in WriteFailChoices(rows[ri]), c \in Done :
          /\ Replays(fetch, wf)
          /\ \E res \in {RowOf([fetch |-> fetch, wf |-> wf], c)} :
            /\ wb' = res.wb
            /\ outFile' = [exists |-> TRUE, data |-> res.wb]
            /\ log' = Append(log, LogEntry(res))
            /\ ctx' = IF res.called /\ fetch.k = "ctx" THEN c ELSE ctx
            /\ IF res.ret # NoErr
               THEN /\ Return(Wrap(SheetLayer(si), Wrap(RowLayer(ri), res.ret)), ctx')
                    /\ UNCHANGED ri
               ELSE /\ ri' = ri + 1
                    /\ UNCHANGED <<err, pc, handle, closes, result>>
  /\ UNCHANGED <<rev, tmpl, si, rows, column, lib>>
  /\ UNCHANGED <<runNo, first, sameFile>>
  /\ UNCHANGED dsVars
  /\ UNCHANGED cfgVars

\* A faulty variant of Row: a row's error is kept for the end of the sheet
\* and the loop goes on
RowContinuing ==
  /\ pc = "row"
  /\ ri <= Len(rows)
  /\ IF ctx # "live"
     THEN /\ Return(beforeRowError(si, ri, ctx), ctx)
          /\ UNCHANGED <<wb, ri, ctx, log>>
     ELSE \E fetch \in FetchOutcomes(QueryOf),
             wf \in WriteFailChoices(rows[ri]), c \in Done :
          /\ Replays(fetch, wf)
          /\ \E res \in {RowOf([fetch |-> fetch, wf |-> wf], c)} :
            /\ wb' = res.wb
            /\ log' = Append(log, LogEntry(res))
            /\ ctx' = IF res.called /\ fetch.k = "ctx" THEN c ELSE ctx
            /\ IF res.ret # NoErr /\ ri = Len(rows)
               THEN /\ Return(Wrap(SheetLayer(si), Wrap(RowLayer(ri), res.ret)), ctx')
                    /\ UNCHANGED ri
               ELSE /\ ri' = ri + 1
                    /\ UNCHANGED <<err, pc, handle, closes, result>>
  /\ UNCHANGED <<rev, tmpl, outFile, si, rows, column, lib>>
  /\ UNCHANGED <<runNo, first, sameFile>>
  /\ UNCHANGED dsVars
  /\ UNCHANGED cfgVars

\* processSheet: one turn of the row loop, the context check and processRow
Row ==
  /\ pc = "row"
  /\ ri <= Len(rows)
  /\ IF ctx # "live"
     THEN /\ Return(beforeRowError(si, ri, ctx), ctx)
          /\ UNCHANGED <<wb, ri, ctx, log>>
     ELSE \E fetch \in FetchOutcomes(QueryOf),
             wf \in WriteFailChoices(rows[ri]), c \in Done :
          /\ Replays(fetch, wf)
          /\ \E res \in {RowOf([fetch |-> fetch, wf |-> wf], c)} :
            /\ wb' = res.wb
            /\ log' = Append(log, LogEntry(res))
            \* a fetch that fails on the context finds it done
            /\ ctx' = IF res.called /\ fetch.k = "ctx" THEN c ELSE ctx
            /\ IF res.ret # NoErr
               THEN /\ Return(Wrap(SheetLayer(si), Wrap(RowLayer(ri), res.ret)), ctx')
                    /\ UNCHANGED ri
               ELSE /\ ri' = ri + 1
                    /\ UNCHANGED <<err, pc, handle, closes, result>>
  /\ UNCHANGED <<rev, tmpl, outFile, si, rows, column, lib>>
  /\ UNCHANGED <<runNo, first, sameFile>>
  /\ UNCHANGED dsVars
  /\ UNCHANGED cfgVars

\* A faulty variant of AfterSheet: the context is not checked after a sheet
AfterSheetUnchecked ==
  /\ pc = "row"
  /\ ri > Len(rows)
  /\ si' = si + 1
  /\ pc' = "sheet"
  /\ UNCHANGED <<err, handle, closes, result>>
  /\ UNCHANGED <<rev, tmpl, outFile, wb, ri, rows, ctx, log, column, lib>>
  /\ UNCHANGED <<runNo, first, sameFile>>
  /\ UNCHANGED dsVars
  /\ UNCHANGED cfgVars

\* GenerateReport: the context check after a sheet
AfterSheet ==
  /\ pc = "row"
  /\ ri > Len(rows)
  /\ IF ctx # "live"
     THEN /\ Return(<<Layer("aftersheet", SheetNames[si], 0, <<>>)>> \o CtxErr(ctx), ctx)
          /\ UNCHANGED si
     ELSE /\ si' = si + 1
          /\ pc' = "sheet"
          /\ UNCHANGED <<err, handle, closes, result>>
  /\ UNCHANGED <<rev, tmpl, outFile, wb, ri, rows, ctx, log, column, lib>>
  /\ UNCHANGED <<runNo, first, sameFile>>
  /\ UNCHANGED dsVars
  /\ UNCHANGED cfgVars

\* GenerateReport: UpdateLinkedValue and Save
Save ==
  /\ pc = "sheet"
  /\ si > Len(wb)
  /\ \E linked \in {"ok", "failed"}, saved \in {"ok", "failed"} :
       IF linked = "failed" /\ rev = "generator.go"
       THEN /\ lib' = [linked |-> linked, saved |-> "none"]
            /\ Return(Lib("updatelinked"), ctx)
            /\ UNCHANGED outFile
       ELSE /\ lib' = [linked |-> linked, saved |-> saved]
            /\ IF saved = "failed"
               THEN /\ Return(Lib("save"), ctx)
                    /\ UNCHANGED outFile
               ELSE /\ outFile' = [exists |-> TRUE, data |-> wb]
                    /\ Return(NoErr, ctx)
  /\ UNCHANGED <<rev, tmpl, wb, si, ri, rows, ctx, log, column>>
  /\ UNCHANGED <<runNo, first, sameFile>>
  /\ UNCHANGED dsVars
  /\ UNCHANGED cfgVars

\* The timeout expires, or a signal cancels the run.  GenerateReport reads
\* the context only at its checks, which all stand at "row"; a change at any
\* other point shows as a change just before the next check.
CtxDone ==
  /\ ctx = "live"
  /\ pc = "row"
  /\ ctx' \in Done
  /\ UNCHANGED <<rev, tmpl, outFile, wb, handle, pc, si, ri, rows, err, log, result,
                 column, closes, lib>>
  /\ UNCHANGED <<runNo, first, sameFile>>
  /\ UNCHANGED dsVars
  /\ UNCHANGED cfgVars

Next == Start \/ Sheet \/ Row \/ AfterSheet \/ Save \/ CtxDone

Spec == Init /\ [][Next]_vars

(***************************************************************************)
(* The properties.  They speak of the template, of the workbook in memory  *)
(* and on disk, of the error returned, and of the record log keeps of each *)
(* processRow call.                                                        *)
(***************************************************************************)
RefCol == ColumnNameToNumber(DataSourceRefColumn)
Template == FileOf(tmpl)
Calls == 1..Len(log)
RowAt(e) == tmpl[e.s][e.r]
OtherCols(e) == (1..Len(RowAt(e))) \ {RefCol}

\* the run returned success, so the workbook was saved
Saved == pc = "returned" /\ err = NoErr

Blank(text) == \A j \in 1..Len(text) : text[j] = WS

\* the row's reference-column cell is present and not blank
Referencing(row) == Len(row) >= RefCol /\ ~Blank(row[RefCol])

\* the call fetched a mapping that has fields
Fetched(e) == e.called /\ e.fetch.k = "ok" /\ DOMAIN e.fetch.m # {}

\* the call's query gave no rows, or a mapping without fields
EmptyAnswer(e) ==
  e.called /\ (e.fetch.k = "norows" \/ (e.fetch.k = "ok" /\ DOMAIN e.fetch.m = {}))

NotSpace(tok) == tok # WS

\* the text is exactly one placeholder for field k, spaces allowed around
\* it and between its parts
SinglePlaceholder(text, k) == SelectSeq(text, NotSpace) = <<Open, Dot, k, Close>>

Composite(v) == v.t \in {"map", "slice", "bytes"}

\* the text names a field the mapping lacks
RefersToAbsent(text, m) ==
  \E j \in 1..(Len(text) - 1) : text[j] = Dot /\ text[j + 1] \in Idents \ DOMAIN m

\* the revision's resolver, encoder and marker test
Resolve(text, m) ==
  IF rev = "generator.go" THEN getCellValueFromTemplate(text, m)
  ELSE processTemplate(text, m)
Encode(v) == IF rev = "generator.go" THEN encodeMapsAndSlices(v) ELSE encodeComplexTypes(v)
Marked(text) ==
  IF rev = "generator.go"
  THEN text # <<>> /\ Contains(text, Open) /\ Contains(text, Close)
  ELSE Contains(text, Open)

C2_ScalarKeepsType ==
  \A i \in Calls : \A c \in log[i].wrote \ {RefCol} : \A k \in DOMAIN log[i].fetch.m :
    SinglePlaceholder(RowAt(log[i])[c], k) =>
      IF Composite(log[i].fetch.m[k])
      THEN wb[log[i].s][log[i].r][c].t = "str"
      ELSE wb[log[i].s][log[i].r][c] = log[i].fetch.m[k]

\* a single-placeholder cell written with a fetched number, still a number
C2_Witness ==
  \E i \in Calls : \E c \in log[i].wrote \ {RefCol} : \E k \in DOMAIN log[i].fetch.m :
    /\ SinglePlaceholder(RowAt(log[i])[c], k)
    /\ log[i].fetch.m[k].t = "num"
    /\ wb[log[i].s][log[i].r][c] = log[i].fetch.m[k]

\* C2 as stated: such a cell holds the fetched value with its type, whatever
\* the value.
C2_Original ==
  \A i \in Calls : \A c \in log[i].wrote \ {RefCol} : \A k \in DOMAIN log[i].fetch.m :
    SinglePlaceholder(RowAt(log[i])[c], k) =>
      wb[log[i].s][log[i].r][c] = log[i].fetch.m[k]

\* C3.  For a row whose reference cell is absent or blank, processRow
\* returns success, reads no query file, does not call the data source and
\* attempts no write; the row's cells equal the template's in memory and in
\* a saved output.
C3_NoReferenceUntouched ==
  \A i \in Calls : ~Referencing(RowAt(log[i])) =>
    /\ log[i].ret = NoErr
    /\ ~log[i].read /\ ~log[i].called
    /\ log[i].wrote = {} /\ log[i].failed = {}
    /\ wb[log[i].s][log[i].r] = Template[log[i].s][log[i].r]
    /\ Saved => outFile.data[log[i].s][log[i].r] = Template[log[i].s][log[i].r]

\* a saved run over a row whose reference cell is blank and whose other
\* cells hold placeholders
C3_Witness ==
  /\ Saved
  /\ \E i \in Calls :
       /\ Len(RowAt(log[i])) >= RefCol /\ Blank(RowAt(log[i])[RefCol])
       /\ RowAt(log[i])[RefCol] # <<>>
       /\ Contains(RowAt(log[i])[1], Open)

\* C4 as stated.  When the data source answers a row's query with
\* "multiple rows" or another error that is not "no rows", processRow
\* returns an error, no later row is processed, GenerateReport fails and
\* the output on disk is not the saved workbook.
C4_FetchErrorFatal ==
  \A i \in Calls : (log[i].called /\ log[i].fetch.k \in {"multi", "dberr", "ctx"}) =>
    /\ log[i].ret # NoErr
    /\ i = Len(log)
    /\ pc = "returned" /\ err # NoErr
    /\ outFile.data = Template

\* generator.go saves a report in which the row whose query returned
\* multiple rows keeps its placeholder
C4_Witness ==
  /\ rev = "generator.go" /\ Saved
  /\ \E i \in Calls :
       /\ log[i].fetch.k = "multi"
       /\ \E c \in OtherCols(log[i]) :
            /\ Contains(RowAt(log[i])[c], Open)
            /\ outFile.data[log[i].s][log[i].r][c] = Template[log[i].s][log[i].r][c]

\* C5.  If a row's reference resolves to a query file that does not exist,
\* GenerateReport returns an error, both entry points fail, and the error
\* names the resolved path, the sheet and the row.
C5_MissingFileNamed ==
  \A i \in Calls : (Referencing(RowAt(log[i])) /\ FileKind(log[i].path) = "missing") =>
    /\ pc = "returned" /\ err # NoErr
    /\ \A m \in Mains : result[m] # NoErr
    /\ \E j \in 1..Len(err) : err[j].p = log[i].path
    /\ \E j \in 1..Len(err) : err[j].s = SheetNames[log[i].s]
    /\ \E j \in 1..Len(err) : err[j].r = log[i].r

\* the second row names missing.sql; the error names q/missing.sql, the
\* sheet and row 2
C5_Witness ==
  /\ pc = "returned"
  /\ \E i \in Calls :
       /\ log[i].r = 2
       /\ TrimSpace(RowAt(log[i])[RefCol]) = <<"missing.sql">>
       /\ err = <<SheetLayer(log[i].s), RowLayer(2),
                  Layer("sqlnotfound", "", 0, <<<<"q">>, <<"missing.sql">>>>)>>

\* after the call, the row loop goes on: the run stands past the row, or
\* has returned without a row's error
Continues(i) ==
  i = Len(log) =>
    IF pc = "returned" THEN ~ErrIs(err, "row")
    ELSE si > log[i].s \/ (si = log[i].s /\ ri > log[i].r)

C7_UndefinedFieldFails ==
  \A i \in Calls : Fetched(log[i]) =>
    \A c \in OtherCols(log[i]) : RefersToAbsent(RowAt(log[i])[c], log[i].fetch.m) =>
      /\ Resolve(RowAt(log[i])[c], log[i].fetch.m).err
      /\ c \notin log[i].wrote
      /\ wb[log[i].s][log[i].r][c] = Template[log[i].s][log[i].r][c]

\* generator.go writes "<no value>" into a cell that names an absent field
C7_Witness ==
  /\ rev = "generator.go"
  /\ \E i \in Calls : \E c \in OtherCols(log[i]) :
       /\ Fetched(log[i])
       /\ RefersToAbsent(RowAt(log[i])[c], log[i].fetch.m)
       /\ wb[log[i].s][log[i].r][c] = Str(<<"<no value>">>)

\* what the row's loop owes cell c, given the mapping m: "skip" for a cell
\* without marker, "unresolved" and "unencoded" for the two failures, "same"
\* for a value whose text is the cell's, else "write" and the value
Owed(text, m) ==
  IF ~Marked(text) THEN [k |-> "skip", v |-> VNil]
  ELSE LET res == Resolve(text, m) IN
       IF res.err THEN [k |-> "unresolved", v |-> VNil]
       ELSE LET enc == Encode(res.val) IN
            IF enc.err THEN [k |-> "unencoded", v |-> VNil]
            ELSE IF Sprint(enc.val) = text THEN [k |-> "same", v |-> VNil]
            ELSE [k |-> "write", v |-> enc.val]

OwedRow(e) == [c \in OtherCols(e) |-> Owed(RowAt(e)[c], e.fetch.m)]

\* C8.  In a row with a fetched mapping, a cell whose resolution or whose
\* write fails keeps the template's text; and unless generator.go meets a
\* value it cannot encode, processRow returns success and every other cell
\* that is due a value was written with it.
C8_CellFailureNotFatal ==
  \A i \in Calls : Fetched(log[i]) =>
    \E owed \in {OwedRow(log[i])} :
    /\ \A c \in OtherCols(log[i]) : (owed[c].k = "unresolved" \/ c \in log[i].failed) =>
         wb[log[i].s][log[i].r][c] = Template[log[i].s][log[i].r][c]
    /\ ~(rev = "generator.go" /\ \E c \in OtherCols(log[i]) : owed[c].k = "unencoded") =>
         /\ log[i].ret = NoErr
         /\ \A c \in OtherCols(log[i]) : (owed[c].k = "write" /\ c \notin log[i].failed) =>
              /\ c \in log[i].wrote
              /\ wb[log[i].s][log[i].r][c] = owed[c].v

\* a row in which a cell's resolution failed and a later cell was written,
\* and a row in which a cell's write failed and a later cell was written
C8_Witness ==
  \E i \in Calls : \E c1, c2 \in OtherCols(log[i]) :
    /\ Fetched(log[i]) /\ log[i].ret = NoErr
    /\ c1 < c2
    /\ Owed(RowAt(log[i])[c1], log[i].fetch.m).k = "unresolved"
    /\ c2 \in log[i].wrote
    /\ \E j \in Calls : \E d1, d2 \in OtherCols(log[j]) :
         d1 < d2 /\ d1 \in log[j].failed /\ d2 \in log[j].wrote

\* the step taken when the context is done before row ri of sheet si: the
\* run returns an error that wraps the context's error and names the sheet
\* and the row; no row is processed and nothing is written
C9_Step ==
  (pc = "row" /\ ri <= Len(rows) /\ ctx # "live") =>
    /\ pc' = "returned"
    /\ log' = log /\ wb' = wb /\ outFile' = outFile
    /\ ErrIs(err', ctx)
    /\ \E j \in 1..Len(err') : err'[j].s = SheetNames[si] /\ err'[j].r = ri

\* C9.  If the context is done when processSheet comes to row r of sheet
\* s, the run returns at once with an error that wraps the context's error
\* and names s and r; row r is not processed, and once the run has returned
\* nothing more is read, asked or written.
C9_CancelledBeforeRow == [][C9_Step /\ pc # "returned"]_vars

\* the context was found done before row 2: row 1 was processed and its
\* query sent, row 2 was not
C9_Witness ==
  /\ pc = "returned" /\ ctx # "live"
  /\ Len(log) = 1 /\ log[1].called
  /\ \E j \in 1..Len(err) : err[j].k = "beforerow" /\ err[j].r = 2

TimedOut == <<Layer("timedout", "", 0, <<>>)>>
Cancelled(e) == e # NoErr /\ e[1].k \in {"cancelled", "cancelledbysignal"}

\* C10.  When GenerateReport fails, each entry point returns the "timed
\* out" error exactly if the failure wraps deadline-exceeded, a "cancelled"
\* error exactly if it wraps context-cancelled, and otherwise the failure
\* wrapped as "report generation: ...".
C10_OutcomeMapping ==
  (pc = "returned" /\ err # NoErr) => \A m \in Mains :
    /\ result[m] = TimedOut <=> ErrIs(err, "deadline")
    /\ Cancelled(result[m]) <=> ErrIs(err, "canceled")
    /\ (~ErrIs(err, "deadline") /\ ~ErrIs(err, "canceled")) =>
         result[m] = Wrap(Layer("reportgeneration", "", 0, <<>>), err)

\* the timeout expired during a fetch, and both entry points report it as
\* a timeout
C10_Witness ==
  /\ pc = "returned" /\ ErrIs(err, "deadline") /\ ErrIs(err, "fetch")
  /\ \A m \in Mains : result[m] = TimedOut

\* the workbook was opened: GenerateReport went past excelize.OpenFile
Opened == pc # "start" /\ ~ErrIs(err, "copy") /\ ~ErrIs(err, "open")

\* C11 as stated.  When UpdateLinkedValue fails after every sheet was
\* processed, GenerateReport still calls Save, and when Save succeeds it
\* returns no error and the output on disk is the workbook.
C11_RefreshFailureNotFatal ==
  (pc = "returned" /\ lib.linked = "failed") =>
    /\ lib.saved # "none"
    /\ lib.saved = "ok" => (err = NoErr /\ outFile.data = wb)

\* generator.go processed a row, then returned "update linked values"
\* without calling Save: the output on disk is still the template's copy
C11_Witness ==
  /\ rev = "generator.go" /\ pc = "returned"
  /\ lib = [linked |-> "failed", saved |-> "none"]
  /\ ErrIs(err, "updatelinked")
  /\ \E i \in Calls : log[i].wrote # {}
  /\ outFile.data = Template /\ wb # Template

\* once the handle is closed no workbook is read, written or saved
C12_Step == handle = "closed" => UNCHANGED <<wb, rows, outFile, log, lib, handle, closes>>

\* C12.  Whenever GenerateReport has returned after the workbook was opened
\* (success, no sheets, invalid column, row error, cancellation, refresh
\* failure, save failure) the handle was closed exactly once; it is never
\* closed otherwise, and no step reads, writes or saves the workbook after
\* the close.
C12_ClosedOnce ==
  /\ [](/\ closes = (IF handle = "closed" THEN 1 ELSE 0)
        /\ (pc = "returned" /\ Opened) => handle = "closed"
        /\ ~Opened => handle = "none")
  /\ [][C12_Step]_vars

\* a run that failed on saving, after rows were written, closed the handle
C12_Witness ==
  /\ pc = "returned" /\ ErrIs(err, "save") /\ handle = "closed" /\ closes = 1
  /\ \E i \in Calls : log[i].wrote # {}

\* the Value Encoder as C14 words it
Encoder(v) ==
  CASE v.t = "nil" -> VNil
    [] v.t = "bytes" -> Str(v.v)
    [] v.t \in {"map", "slice"} -> Str(Marshal(v))
    [] OTHER -> v

\* C14 as stated.  For every value a fetch returned that can be serialized,
\* the revision's encoder gives nil for nil, the bytes' text for a byte
\* sequence, the JSON text for another map or slice and the value itself
\* for a scalar; and a written cell that is one single-field placeholder
\* holds that.
C14_EncoderMapping ==
  \A i \in Calls : \A k \in DOMAIN log[i].fetch.m :
    \E v \in {log[i].fetch.m[k]} :
      ~MarshalFails(v) =>
        /\ Encode(v) = Resolved(Encoder(v))
        /\ \A c \in log[i].wrote \ {RefCol} :
             SinglePlaceholder(RowAt(log[i])[c], k) =>
               wb[log[i].s][log[i].r][c] = Encoder(v)

\* generator.go wrote the JSON text of a byte sequence, not the bytes' text
C14_Witness ==
  /\ rev = "generator.go"
  /\ \E i \in Calls : \E c \in log[i].wrote \ {RefCol} :
       /\ SinglePlaceholder(RowAt(log[i])[c], "z")
       /\ "z" \in DOMAIN log[i].fetch.m
       /\ log[i].fetch.m["z"] = VBytes
       /\ wb[log[i].s][log[i].r][c] = Str(Marshal(VBytes))
       /\ Marshal(VBytes) # VBytes.v

\* the row's loop meets a value the encoder cannot serialize
Unencodable(e) ==
  Fetched(e) /\ \E c \in OtherCols(e) : Owed(RowAt(e)[c], e.fetch.m).k = "unencoded"

\* C15 as stated.  When the encoder fails on a value resolved for a cell of
\* a row, processRow returns the encoding error and GenerateReport fails
\* with it.
C15_EncodeFailureFatal ==
  \A i \in Calls : Unencodable(log[i]) =>
    /\ ErrIs(log[i].ret, "encode")
    /\ pc = "returned" /\ ErrIs(err, "encode")

\* part_004 saved a report in which the cell whose value could not be
\* encoded keeps its placeholder
C15_Witness ==
  /\ rev = "part_004" /\ Saved
  /\ \E i \in Calls : \E c \in OtherCols(log[i]) :
       /\ Unencodable(log[i]) /\ log[i].ret = NoErr
       /\ Owed(RowAt(log[i])[c], log[i].fetch.m).k = "unencoded"
       /\ outFile.data[log[i].s][log[i].r][c] = Template[log[i].s][log[i].r][c]

(***************************************************************************)
(* The data source.  FetchData reads p.closed and then queries the pool;   *)
(* Close swaps p.closed and then closes the pool.  The calls run           *)
(* concurrently, so each is two steps.                                     *)
(***************************************************************************)
genVars == <<rev, tmpl, outFile, wb, handle, pc, si, ri, rows, ctx, err, log, result,
             column, closes, lib, sameFile, runNo, first>>

DsRevs == {"postgres.go", "part_002"}

\* the query texts handed to FetchData
DsQueries == {<<>>, <<WS>>, <<WS, "SELECT 1">>}

ErrDataSourceClosed == <<Layer("closed", "", 0, <<>>)>>
ErrEmptyQuery == <<Layer("emptyquery", "", 0, <<>>)>>

\* what the pool may answer to a query
PoolAnswers ==
  {[k |-> "ok", m |-> "a" :> VNum]} \cup
  {[k |-> e, m |-> M0] : e \in {"norows", "multi", "dberr"}}

\* part_002: the error a failed fetch returns; "multiple rows" is not told
\* from other failures of CollectOneRow
FetchError2(fetch) ==
  CASE fetch.k = "norows" -> <<Layer("norows", "", 0, <<>>)>>
    [] fetch.k = "multi" -> <<Layer("collectrow", "", 0, <<>>), Layer("pgx", "", 0, <<>>)>>
    [] OTHER -> <<Layer("execquery", "", 0, <<>>), Layer("pgx", "", 0, <<>>)>>

\* a Close call has returned
CloseReturned == \E j \in 1..MaxCloses : closers[j] = "returned"

Returned(call, e) == [call EXCEPT !.pc = "done", !.ret = e]

\* FetchData up to the query: postgres.go lines 75-83, part_002 lines 64-70
FetchCheck(q, call) ==
  IF dsRev = "postgres.go"
  THEN IF closed THEN Returned(call, ErrDataSourceClosed)
       ELSE IF TrimSpace(q) = <<>> THEN Returned(call, ErrEmptyQuery)
       ELSE [call EXCEPT !.pc = "query", !.query = TrimSpace(q)]
  ELSE IF q = <<>> THEN Returned(call, ErrEmptyQuery)
       ELSE IF closed THEN Returned(call, ErrDataSourceClosed)
       ELSE [call EXCEPT !.pc = "query", !.query = q]

\* call i of FetchData begins: the checks before the query
FetchData(i) ==
  /\ fetches[i].pc = "idle"
  /\ i > 1 => fetches[i - 1].pc # "idle"
  /\ \E q \in DsQueries :
       fetches' = [fetches EXCEPT
                     ![i] = FetchCheck(q, [fetches[i] EXCEPT !.late = CloseReturned])]
  /\ UNCHANGED <<dsRev, closed, pool, poolCloses, closers>>
  /\ UNCHANGED genVars
  /\ UNCHANGED cfgVars

\* call i of FetchData queries the pool and returns; a closed pool refuses
Query(i) ==
  /\ fetches[i].pc = "query"
  /\ IF pool = "closed"
     THEN fetches' = [fetches EXCEPT ![i] =
            Returned([fetches[i] EXCEPT !.ran = "closed"], FetchError2([k |-> "dberr"]))]
     ELSE \E ans \in PoolAnswers :
            fetches' = [fetches EXCEPT ![i] =
              [fetches[i] EXCEPT
                 !.pc = "done", !.ran = "open", !.m = ans.m,
                 !.ret = IF ans.k = "ok" THEN NoErr
                         ELSE IF dsRev = "postgres.go" THEN FetchError(ans, "canceled")
                         ELSE FetchError2(ans)]]
  /\ UNCHANGED <<dsRev, closed, pool, poolCloses, closers>>
  /\ UNCHANGED genVars
  /\ UNCHANGED cfgVars

\* call j of Close begins: p.closed.CompareAndSwap(false, true)
CloseCall(j) ==
  /\ closers[j] = "idle"
  /\ j > 1 => closers[j - 1] # "idle"
  /\ closed' = TRUE
  /\ closers' = [closers EXCEPT ![j] = IF closed THEN "returned" ELSE "closing"]
  /\ UNCHANGED <<dsRev, pool, poolCloses, fetches>>
  /\ UNCHANGED genVars
  /\ UNCHANGED cfgVars

\* call j of Close closes the pool and returns
PoolClose(j) ==
  /\ closers[j] = "closing"
  /\ pool' = "closed"
  /\ poolCloses' = poolCloses + 1
  /\ closers' = [closers EXCEPT ![j] = "returned"]
  /\ UNCHANGED <<dsRev, closed, fetches>>
  /\ UNCHANGED genVars
  /\ UNCHANGED cfgVars

InitDS ==
  /\ rev = "generator.go"
  /\ tmpl = <<>>
  /\ column = <<"B">>
  /\ NoOutput
  /\ GenInit
  /\ dsRev \in DsRevs
  /\ DSInit
  /\ NoInput
  /\ CfgInit

NextDS ==
  \/ \E i \in 1..MaxFetches : FetchData(i)
  \/ \E i \in 1..MaxFetches : Query(i)
  \/ \E j \in 1..MaxCloses : CloseCall(j)
  \/ \E j \in 1..MaxCloses : PoolClose(j)

SpecDS == InitDS /\ [][NextDS]_vars

\* C13 as stated.  A FetchData call that begins after a Close call has
\* returned never reaches the pool and returns "data source is closed",
\* whatever its query text.
C13_ClosedAfterClose ==
  \A i \in 1..MaxFetches : fetches[i].late =>
    /\ fetches[i].pc = "done"
    /\ fetches[i].ran = "no"
    /\ fetches[i].ret = ErrDataSourceClosed

\* part_002 answered a call with an empty query text, made after Close had
\* returned, with "query must not be empty"
C13_Witness ==
  /\ dsRev = "part_002"
  /\ \E i \in 1..MaxFetches :
       /\ fetches[i].late /\ fetches[i].pc = "done"
       /\ fetches[i].ret = ErrEmptyQuery
       /\ pool = "closed"

(***************************************************************************)
(* GenerateReport run twice: the second run starts from the files the      *)
(* first left, with the same template, query files and data source.        *)
(***************************************************************************)
\* the program is started again once the first run has returned with
\* success
Rerun ==
  /\ pc = "returned"
  /\ runNo = 1
  /\ err = NoErr
  /\ runNo' = 2
  /\ first' = [out |-> outFile, log |-> log, err |-> err]
  /\ wb' = <<>>
  /\ handle' = "none"
  /\ pc' = "start"
  /\ si' = 0
  /\ ri' = 0
  /\ rows' = <<>>
  /\ ctx' = "live"
  /\ err' = NoErr
  /\ log' = <<>>
  /\ result' = [m \in Mains |-> NoErr]
  /\ closes' = 0
  /\ lib' = [linked |-> "none", saved |-> "none"]
  /\ UNCHANGED <<rev, tmpl, column, outFile, sameFile>>
  /\ UNCHANGED dsVars
  /\ UNCHANGED cfgVars

NextTwice == Start \/ Sheet \/ Row \/ AfterSheet \/ Save \/ CtxDone \/ Rerun

SpecTwice == Init /\ [][NextTwice]_vars

\* C16.  A second run that succeeds after a first run that succeeded, on
\* the same template, query files and data source answers, leaves the
\* output the first run left, cell by cell with the cells' types; and
\* whatever the first run left, the second starts its sheets from the
\* template's cells.
C16_Idempotent ==
  /\ (runNo = 2 /\ Saved /\ first.err = NoErr) => outFile.data = first.out.data
  /\ (runNo = 2 /\ pc = "sheet" /\ si = 1) => (wb = Template /\ outFile.data = Template)

\* both runs succeeded and wrote a fetched value, over an output file that
\* differed from the template
C16_Witness ==
  /\ runNo = 2 /\ Saved /\ first.err = NoErr
  /\ first.out.data # Template
  /\ outFile.data = first.out.data
  /\ \E i \in Calls : log[i].wrote \ {RefCol} # {} /\ log[i].failed # {}

(***************************************************************************)
(* The configuration.  part_001 holds two revisions of Load, each followed *)
(* by Validate and Normalize; cli.go fills the Config from the command's   *)
(* flags and then calls Validate and config.go's Normalize.  A text is a   *)
(* sequence of characters, a duration text a sequence of numbers and       *)
(* units.                                                                  *)
(***************************************************************************)
\* Largest number of flags given and variables set, together.
MaxGiven == 3

CfgRevs == {"cli.go", "part_001a", "part_001b"}

\* the texts a flag may carry
FlagTexts(k) ==
  CASE k = "refcol" -> {<<"c">>, <<"X", "F", "E">>, <<"1", "A">>}
    [] k = "timeout" -> {<<"10", "s">>, <<"1", "m", "30">>}
    [] k = "dsn" -> {<<"f">>, <<WS>>}
    [] k = "output" -> {<<"f">>, <<>>}
    [] k = "template" -> {<<"f">>, <<Sep, "f">>}
    [] k = "queries" -> {<<"f">>, <<Sep, "f", Sep>>}
    [] OTHER -> {<<"f">>}

\* the texts an environment variable may hold; the empty text stands for a
\* variable that is not set
EnvTexts(k) ==
  CASE k = "refcol" -> {<<"D">>, <<"a", "B">>}
    [] k = "timeout" -> {<<"1", "m">>, <<"0", "s">>, <<"s", "1">>}
    [] OTHER -> {<<"e">>}

FlagChoices(k) == {NotGiven} \cup {Given(v) : v \in FlagTexts(k)}
EnvChoices(k) == {<<>>} \cup EnvTexts(k)

ArgLists ==
  {[dsn |-> a, template |-> b, refcol |-> c, queries |-> d, output |-> e, timeout |-> t] :
     a \in FlagChoices("dsn"), b \in FlagChoices("template"), c \in FlagChoices("refcol"),
     d \in FlagChoices("queries"), e \in FlagChoices("output"), t \in FlagChoices("timeout")}

Environments ==
  {[dsn |-> a, template |-> b, refcol |-> c, queries |-> d, output |-> e, timeout |-> t] :
     a \in EnvChoices("dsn"), b \in EnvChoices("template"), c \in EnvChoices("refcol"),
     d \in EnvChoices("queries"), e \in EnvChoices("output"), t \in EnvChoices("timeout")}

GivenCount(a, e) ==
  Cardinality({k \in Settings : a[k].given}) + Cardinality({k \in Settings : e[k] # <<>>})

\* DefaultReportTimeout, in seconds, and the other defaults
DefaultReportTimeout == 300
DefaultText(k) ==
  CASE k = "refcol" -> <<"R">>
    [] k = "queries" -> <<"queries">>
    [] k = "output" -> <<"excalibur_report.xlsx">>
    [] k = "timeout" -> <<"5", "m", "0", "s">>
    [] OTHER -> <<>>

\* time.ParseDuration: one or more numbers, each followed by its unit
Units == [s |-> 1, m |-> 60, h |-> 3600]
Numbers == [n \in {"0", "1", "5", "10", "30"} |->
              CASE n = "0" -> 0 [] n = "1" -> 1 [] n = "5" -> 5 [] n = "10" -> 10
                [] OTHER -> 30]
NoDuration == [ok |-> FALSE, d |-> 0]

RECURSIVE ParseDuration(_)
ParseDuration(t) ==
  IF Len(t) < 2 \/ t[1] \notin DOMAIN Numbers \/ t[2] \notin DOMAIN Units
  THEN NoDuration
  ELSE IF Len(t) = 2 THEN [ok |-> TRUE, d |-> Numbers[t[1]] * Units[t[2]]]
  ELSE LET rest == ParseDuration(SubSeq(t, 3, Len(t))) IN
       IF rest.ok THEN [ok |-> TRUE, d |-> Numbers[t[1]] * Units[t[2]] + rest.d]
       ELSE NoDuration

\* strings.ToUpper
ToUpper(t) ==
  [i \in 1..Len(t) |->
     IF \E j \in 1..Len(LowerLetters) : LowerLetters[j] = t[i]
     THEN Letters[CHOOSE j \in 1..Len(LowerLetters) : LowerLetters[j] = t[i]]
     ELSE t[i]]

\* excelColumnRegex, ^[A-Z]+$
isValidColumnName(t) ==
  t # <<>> /\ \A i \in 1..Len(t) : \E j \in 1..Len(Letters) : Letters[j] = t[i]

getenvOrDefault(k, defaultValue) ==
  IF environ[k] = <<>> THEN defaultValue ELSE environ[k]

\* the text a string flag ends with: the flag's, else the default it was
\* registered with
FlagOrEnv(k) == IF args[k].given THEN args[k].v ELSE getenvOrDefault(k, DefaultText(k))

LoadFailed(k) ==
  /\ cfgPc' = "failed"
  /\ cfgErr' = [k |-> k, problems |-> {}]
  /\ UNCHANGED <<cfg, normalizedCfg>>

Loaded(refcol, timeout) ==
  /\ cfgPc' = "validate"
  /\ cfg' = [dsn |-> FlagOrEnv("dsn"), template |-> FlagOrEnv("template"),
             refcol |-> refcol, queries |-> FlagOrEnv("queries"),
             output |-> FlagOrEnv("output"), timeout |-> timeout]
  /\ UNCHANGED <<cfgErr, normalizedCfg>>

\* A faulty variant of LoadColumn: the column is left as it was given
LoadColumnAsGiven == FlagOrEnv("refcol")

\* the reference column Load ends with: part_001, lines 123 and 335
LoadColumn == ToUpper(FlagOrEnv("refcol"))

\* part_001, lines 93-105: a variable that is no duration gives the default
parsedTimeoutFromEnv ==
  IF ParseDuration(getenvOrDefault("timeout", DefaultText("timeout"))).ok
  THEN ParseDuration(getenvOrDefault("timeout", DefaultText("timeout")))
  ELSE [ok |-> TRUE, d |-> DefaultReportTimeout]

\* part_001, lines 308-318: a variable that is no duration is an error
parsedTimeout == ParseDuration(getenvOrDefault("timeout", DefaultText("timeout")))

\* the duration Load reads from the environment
EnvTimeout == IF cfgRev = "part_001a" THEN parsedTimeoutFromEnv ELSE parsedTimeout

\* Load of part_001; in cli.go the command's flags, of which dsn and the
\* template path are required, read in the Action
Load ==
  /\ cfgPc = "load"
  /\ IF cfgRev = "cli.go"
     THEN IF \E k \in {"dsn", "template"} : ~args[k].given /\ environ[k] = <<>>
          THEN LoadFailed("required")
          ELSE IF ~ParseDuration(FlagOrEnv("timeout")).ok
          THEN LoadFailed("parse")
          ELSE Loaded(FlagOrEnv("refcol"), ParseDuration(FlagOrEnv("timeout")).d)
     ELSE IF ~EnvTimeout.ok
          THEN LoadFailed("duration")
          ELSE IF args["timeout"].given /\ ~ParseDuration(args["timeout"].v).ok
          THEN LoadFailed("parse")
          ELSE Loaded(LoadColumn,
                      IF args["timeout"].given THEN ParseDuration(args["timeout"].v).d
                      ELSE EnvTimeout.d)
  /\ UNCHANGED <<cfgRev, args, environ, exists>>
  /\ UNCHANGED genVars
  /\ UNCHANGED dsVars

\* A faulty variant of Problems: only the first problem is reported
ProblemsFirstOnly(c, templateExists, queriesExists) ==
  IF TrimSpace(c.dsn) = <<>> THEN {"dsn"}
  ELSE IF c.template = <<>> \/ ~templateExists THEN {"template"}
  ELSE IF c.refcol = <<>> \/ ~isValidColumnName(c.refcol) THEN {"refcol"}
  ELSE IF c.queries = <<>> \/ ~queriesExists THEN {"queries"}
  ELSE IF c.output = <<>> THEN {"output"}
  ELSE IF c.timeout <= 0 THEN {"timeout"}
  ELSE {}

\* Config.Valid of the report and of the data source: the keys of the
\* problems found
Problems(c, templateExists, queriesExists) ==
  {k \in Settings :
     CASE k = "dsn" -> TrimSpace(c.dsn) = <<>>
       [] k = "template" -> c.template = <<>> \/ ~templateExists
       [] k = "refcol" -> c.refcol = <<>> \/ ~isValidColumnName(c.refcol)
       [] k = "queries" -> c.queries = <<>> \/ ~queriesExists
       [] k = "output" -> c.output = <<>>
       [] OTHER -> c.timeout <= 0}

\* Validate
Validate ==
  /\ cfgPc = "validate"
  /\ \E found \in {Problems(cfg, exists.template, exists.queries)} :
       IF found # {}
       THEN /\ cfgPc' = "failed"
            /\ cfgErr' = [k |-> "invalid", problems |-> found]
       ELSE /\ cfgPc' = "normalize"
            /\ UNCHANGED cfgErr
  /\ UNCHANGED <<cfgRev, args, environ, exists, cfg, normalizedCfg>>
  /\ UNCHANGED genVars
  /\ UNCHANGED dsVars

\* the working directory, as segments
Cwd == << <<"cwd">> >>

\* filepath.IsAbs
IsAbs(path) == path # <<>> /\ path[1] = Sep

RECURSIVE PathText(_)
\* the text of an absolute path given by its segments
PathText(segs) ==
  IF segs = <<>> THEN <<>> ELSE <<Sep>> \o Head(segs) \o PathText(Tail(segs))

\* A faulty variant of Abs: a relative path is cleaned and left relative
AbsLeavingRelative(path) ==
  IF IsAbs(path)
  THEN IF CleanSegs(SplitPath(path, <<>>), <<>>) = <<>> THEN <<Sep>>
       ELSE PathText(CleanSegs(SplitPath(path, <<>>), <<>>))
  ELSE path

\* filepath.Abs: Clean of the path, joined to the working directory when
\* it is relative
Abs(path) ==
  IF IsAbs(path)
  THEN IF CleanSegs(SplitPath(path, <<>>), <<>>) = <<>> THEN <<Sep>>
       ELSE PathText(CleanSegs(SplitPath(path, <<>>), <<>>))
  ELSE PathText(JoinClean(Cwd, path))

\* what Normalize returns for c when every filepath.Abs succeeds: config.go
\* upper-cases the column, part_001 does not
Normalized(c) ==
  [c EXCEPT !.refcol = IF cfgRev = "cli.go" THEN ToUpper(@) ELSE @,
            !.template = Abs(@), !.output = Abs(@), !.queries = Abs(@)]

\* Normalize: filepath.Abs fails on a relative path when the working
\* directory cannot be determined
Normalize ==
  /\ cfgPc = "normalize"
  /\ \E getwd \in BOOLEAN :
       IF getwd \/ \A k \in {"template", "output", "queries"} : IsAbs(cfg[k])
       THEN /\ cfgPc' = "run"
            /\ normalizedCfg' = Normalized(cfg)
            /\ UNCHANGED cfgErr
       ELSE /\ cfgPc' = "failed"
            /\ cfgErr' = [k |-> "normalize", problems |-> {}]
            /\ UNCHANGED normalizedCfg
  /\ UNCHANGED <<cfgRev, args, environ, exists, cfg>>
  /\ UNCHANGED genVars
  /\ UNCHANGED dsVars

\* GenerateReport with the configuration's column: ColumnNameToNumber
Column ==
  /\ cfgPc = "run"
  /\ IF ColumnNameToNumber(normalizedCfg.refcol) = 0
     THEN /\ cfgPc' = "failed"
          /\ cfgErr' = [k |-> "refcol", problems |-> {}]
     ELSE /\ cfgPc' = "sheets"
          /\ UNCHANGED cfgErr
  /\ UNCHANGED <<cfgRev, args, environ, exists, cfg, normalizedCfg>>
  /\ UNCHANGED genVars
  /\ UNCHANGED dsVars

InitCfg ==
  /\ rev = "generator.go"
  /\ tmpl = <<>>
  /\ column = <<"B">>
  /\ NoOutput
  /\ GenInit
  /\ dsRev = "postgres.go"
  /\ DSInit
  /\ cfgRev \in CfgRevs
  /\ args \in ArgLists
  /\ environ \in Environments
  /\ exists \in [{"template", "queries"} -> BOOLEAN]
  /\ GivenCount(args, environ) <= MaxGiven
  /\ CfgInit

NextCfg == Load \/ Validate \/ Normalize \/ Column

SpecCfg == InitCfg /\ [][NextCfg]_vars

\* the reference column as the user gave it: by flag, else by variable
ColumnGiven == args["refcol"].given \/ environ["refcol"] # <<>>
ColumnInput == IF args["refcol"].given THEN args["refcol"].v ELSE environ["refcol"]
AllLetters(t) == t # <<>> /\ \A i \in 1..Len(t) : LetterNumber(t[i]) # 0
Validated == cfgPc \in {"normalize", "run", "sheets"} \/ cfgErr.k \in {"normalize", "refcol"}

\* C17 as stated.  A column name of letters of any case, given by flag or
\* variable, raises no problem in validation, and from Normalize on the
\* configuration holds it in upper case.
C17_ColumnCaseInsensitive ==
  (ColumnGiven /\ AllLetters(ColumnInput)) =>
    /\ cfgErr.k = "invalid" => "refcol" \notin cfgErr.problems
    /\ (cfgPc \in {"run", "sheets"} \/ cfgErr.k = "refcol") =>
         normalizedCfg.refcol = ToUpper(ColumnInput)

\* cli.go validates before it normalizes: a lower-case column is the one
\* problem found in a configuration that is valid otherwise
C17_Witness ==
  /\ cfgRev = "cli.go"
  /\ ColumnGiven /\ AllLetters(ColumnInput) /\ ColumnInput # ToUpper(ColumnInput)
  /\ cfgPc = "failed" /\ cfgErr = [k |-> "invalid", problems |-> {"refcol"}]

\* C18 as stated.  A configuration that passed validation never takes
\* GenerateReport's "invalid DataSourceRefCol" branch.
C18_ValidatedColumnResolves == Validated => cfgErr.k # "refcol"

\* a column of capital letters beyond XFD passed validation and failed in
\* GenerateReport
C18_Witness ==
  /\ cfgPc = "failed" /\ cfgErr.k = "refcol"
  /\ isValidColumnName(cfg.refcol) /\ ColumnNameToNumber(normalizedCfg.refcol) = 0

\* the text of a setting by precedence: flag, variable, default
Pick(k) ==
  IF args[k].given THEN args[k].v
  ELSE IF environ[k] # <<>> THEN environ[k] ELSE DefaultText(k)

LoadedBy001 == cfgRev # "cli.go" /\ cfgPc = "validate"

C20_InvalidEnvDurationFails ==
  (cfgRev # "cli.go" /\ cfgPc # "load"
     /\ environ["timeout"] # <<>> /\ ~ParseDuration(environ["timeout"]).ok) =>
    cfgPc = "failed" /\ cfgErr.k = "duration"

\* part_001a loaded the default timeout although the variable's text was
\* no duration
C20_Witness ==
  /\ cfgRev = "part_001a" /\ cfgPc = "validate"
  /\ environ["timeout"] # <<>> /\ ~ParseDuration(environ["timeout"]).ok
  /\ ~args["timeout"].given
  /\ cfg.timeout = DefaultReportTimeout

\* Validate has returned
ValidateReturned == Validated \/ (cfgPc = "failed" /\ cfgErr.k = "invalid")

Capitals == {Letters[j] : j \in 1..Len(Letters)}

\* the fields of the configuration that break C21's conditions
Violated ==
  {k \in Settings :
     CASE k = "dsn" -> Blank(cfg.dsn)
       [] k = "template" -> ~(cfg.template # <<>> /\ exists.template)
       [] k = "refcol" -> ~(cfg.refcol # <<>> /\ \A i \in 1..Len(cfg.refcol) : cfg.refcol[i] \in Capitals)
       [] k = "queries" -> ~(cfg.queries # <<>> /\ exists.queries)
       [] k = "output" -> cfg.output = <<>>
       [] OTHER -> ~(cfg.timeout > 0)}

PathSettings == {"template", "output", "queries"}

\* Normalize has returned a configuration
NormalizeReturned == cfgPc \in {"run", "sheets"} \/ cfgErr.k = "refcol"

\* an absolute path that filepath.Clean leaves alone: no empty segment, no
\* "." and no ".." segment
CleanAbsolute(path) ==
  /\ IsAbs(path)
  /\ \/ path = <<Sep>>
     \/ \A i \in 2..Len(SplitPath(path, <<>>)) :
          SplitPath(path, <<>>)[i] \notin {<<>>, <<Dot>>, <<"..">>}

AllCapitals(t) == \A i \in 1..Len(t) : t[i] \in Capitals

C22_Fields ==
  NormalizeReturned =>
    /\ \A k \in PathSettings : IsAbs(normalizedCfg[k])
    /\ normalizedCfg.dsn = cfg.dsn
    /\ normalizedCfg.timeout = cfg.timeout
    /\ AllCapitals(cfg.refcol) => normalizedCfg.refcol = cfg.refcol
    /\ Normalized(normalizedCfg) = normalizedCfg

\* Normalize leaves the configuration it was given as it was
C22_Step == cfgPc = "normalize" => cfg' = cfg

\* C22, as amended.  What Normalize returns has an absolute template path,
\* output path and queries directory; a path that was already absolute and
\* clean, the DSN, the timeout and a reference column already in upper case
\* are as they were given; normalizing the result again changes nothing;
\* and the configuration given is not changed.
C22_NormalizeAbsolute ==
  /\ [](C22_Fields /\ (NormalizeReturned =>
          \A k \in PathSettings : CleanAbsolute(cfg[k]) => normalizedCfg[k] = cfg[k]))
  /\ [][C22_Step]_vars

\* Normalize made a relative template path absolute and kept an absolute
\* one beside it
C22_Witness ==
  /\ NormalizeReturned
  /\ \E k \in PathSettings : ~IsAbs(cfg[k]) /\ IsAbs(normalizedCfg[k])
  /\ \E k \in PathSettings : CleanAbsolute(cfg[k]) /\ normalizedCfg[k] = cfg[k]

\* C22 as stated: every path that was already absolute is unchanged.
C22_Original ==
  /\ [](C22_Fields /\ (NormalizeReturned =>
          \A k \in PathSettings : IsAbs(cfg[k]) => normalizedCfg[k] = cfg[k]))
  /\ [][C22_Step]_vars

\* the rows of every sheet, as sheet and row number
AllRows ==
  {sr \in (1..Len(SheetNames)) \X (1..MaxRows) :
     sr[1] <= Len(tmpl) /\ sr[2] <= Len(tmpl[sr[1]])}
Processed == {<<log[i].s, log[i].r>> : i \in Calls}

\* UpdateLinkedValue or Save was called
SaveReached == lib.linked # "none" \/ lib.saved # "none"

\* the context check after a sheet stands next and finds the context done
PostSheetDone == pc = "row" /\ ri > Len(rows) /\ ctx # "live"

C23_Step ==
  /\ PostSheetDone =>
       /\ pc' = "returned" /\ ErrIs(err', ctx) /\ err'[1].k = "aftersheet"
       /\ lib' = lib /\ outFile' = outFile
  /\ lib.saved # "none" => lib' = lib /\ outFile' = outFile
  /\ (pc # "start" /\ outFile' # outFile) => lib.saved = "none" /\ lib'.saved = "ok"

\* C23.  The workbook is saved at most once in a run, and only when every
\* row of every sheet was processed without error and no context check
\* found the context done; a context check after a sheet that finds the
\* context done ends the run with an error wrapping the context's, and
\* nothing is saved, though every row may have been processed.
C23_SaveOnceAtEnd ==
  /\ [](/\ SaveReached =>
             /\ Processed = AllRows /\ Len(log) = Cardinality(AllRows)
             /\ \A i \in Calls : log[i].ret = NoErr
             /\ ctx = "live"
        /\ (pc = "returned" /\ err # NoErr /\ err[1].k = "aftersheet") =>
             /\ ~SaveReached /\ \E c \in Done : ErrIs(err, c)
             /\ outFile.data = Template)
  /\ [][C23_Step]_vars

\* the context was found done after the last sheet, every row processed and
\* cells changed in memory, and nothing was saved
C23_Witness ==
  /\ pc = "returned" /\ err # NoErr /\ err[1].k = "aftersheet"
  /\ si = Len(tmpl) /\ Processed = AllRows /\ AllRows # {}
  /\ wb # Template /\ outFile.data = Template /\ lib.saved = "none"

\* row a stands before row b in workbook order
Before(a, b) == a[1] < b[1] \/ (a[1] = b[1] /\ a[2] < b[2])
At(i) == <<log[i].s, log[i].r>>

\* some processRow call returned an error
RowFailed == \E i \in Calls : log[i].ret # NoErr

C24_Order ==
  \A i \in Calls :
    /\ \A j \in Calls : i < j => Before(At(i), At(j))
    /\ \A sr \in AllRows : Before(sr, At(i)) => \E j \in 1..(i - 1) : At(j) = sr

C24_Abort ==
  \A i \in Calls : log[i].ret # NoErr =>
    /\ i = Len(log)
    /\ pc = "returned"
    /\ Len(err) = 2 + Len(log[i].ret)
    /\ err[1].k = "sheet" /\ err[1].s = SheetNames[log[i].s]
    /\ err[2].k = "row" /\ err[2].r = log[i].r
    /\ SubSeq(err, 3, Len(err)) = log[i].ret

\* C24.  processRow is called on the rows in workbook order, sheet after
\* sheet and row after row, none left out; the first call that returns an
\* error is the last call of the run, nothing is fetched or written after
\* it, and GenerateReport returns its error wrapped with the sheet's name
\* and the row's number.
C24_FirstRowErrorAborts ==
  /\ [](C24_Order /\ C24_Abort)
  /\ [][RowFailed => (log' = log /\ wb' = wb /\ outFile' = outFile)]_vars

\* the first row's fetch failed while a later row with a reference was
\* still to come
C24_Witness ==
  /\ Len(log) = 1 /\ log[1].called /\ log[1].ret # NoErr
  /\ pc = "returned"
  /\ \E sr \in AllRows : Before(At(1), sr) /\ Referencing(tmpl[sr[1]][sr[2]])

\* the query file a row's reference names
PathOf(row) == JoinClean(QueriesDir, TrimSpace(row[RefCol]))

\* the row has a reference, and its query file can be read and is not blank
Callable(row) ==
  Referencing(row) /\ FileKind(PathOf(row)) = "file" /\ ~Blank(FileText(PathOf(row)))

\* C25.  Each row is handled by one processRow call, which calls the data
\* source, once, exactly when the row has a reference whose query file is
\* readable and not blank, handing it that file's text; and every cell the
\* call wrote beside the reference cell holds what the cell's text gives
\* against the mapping fetched in that same call.
C25_OneFetchPerReference ==
  \A i \in Calls :
    /\ \A j \in Calls : i # j => At(i) # At(j)
    /\ log[i].called <=> Callable(RowAt(log[i]))
    /\ log[i].called => TrimSpace(log[i].query) = TrimSpace(FileText(PathOf(RowAt(log[i]))))
    /\ ~log[i].called => log[i].fetch.k = "none" /\ log[i].wrote \subseteq {RefCol}
    /\ \A c \in log[i].wrote \ {RefCol} :
         /\ Owed(RowAt(log[i])[c], log[i].fetch.m).k = "write"
         /\ wb[log[i].s][log[i].r][c] = Owed(RowAt(log[i])[c], log[i].fetch.m).v

\* two rows with the same cells fetched different mappings, and each row's
\* cell holds the value of its own
C25_Witness ==
  /\ Len(log) = 2 /\ Fetched(log[1]) /\ Fetched(log[2])
  /\ RowAt(log[1]) = RowAt(log[2])
  /\ log[1].fetch.m # log[2].fetch.m
  /\ \E c \in (log[1].wrote \cap log[2].wrote) \ {RefCol} :
       wb[log[1].s][log[1].r][c] # wb[log[2].s][log[2].r][c]

\* SetCellValue was called on cell c in call e, and succeeded or failed
Attempted(e) == (e.wrote \cup e.failed) \ {RefCol}

\* C26.  In a row whose fetch succeeded, SetCellValue is called on a cell
\* beside the reference cell only if the cell's text contains the opening
\* marker, its resolution and the encoding of the resolved value succeed,
\* and the text of the encoded value is not the cell's text; every other
\* cell beside the reference cell is as the template has it.
C26_WritesOnlyChangedPlaceholders ==
  \A i \in Calls : (log[i].called /\ log[i].fetch.k = "ok") =>
    /\ \A c \in Attempted(log[i]) :
         /\ c \in 1..Len(RowAt(log[i]))
         /\ Contains(RowAt(log[i])[c], Open)
         /\ ~Resolve(RowAt(log[i])[c], log[i].fetch.m).err
         /\ ~Encode(Resolve(RowAt(log[i])[c], log[i].fetch.m).val).err
         /\ Sprint(Encode(Resolve(RowAt(log[i])[c], log[i].fetch.m).val).val) # RowAt(log[i])[c]
    /\ \A c \in OtherCols(log[i]) \ log[i].wrote :
         wb[log[i].s][log[i].r][c] = Template[log[i].s][log[i].r][c]

\* in one row a placeholder was written, a plain cell was left alone, and a
\* placeholder whose value has the cell's own text was not written
C26_Witness ==
  \E i \in Calls :
    /\ Fetched(log[i])
    /\ \E c \in log[i].wrote \ {RefCol} : TRUE
    /\ \E c \in OtherCols(log[i]) \ Attempted(log[i]) : ~Contains(RowAt(log[i])[c], Open)
    /\ \E c \in OtherCols(log[i]) \ Attempted(log[i]) :
         /\ ~Resolve(RowAt(log[i])[c], log[i].fetch.m).err
         /\ Sprint(Resolve(RowAt(log[i])[c], log[i].fetch.m).val) = RowAt(log[i])[c]

\* the template file as it is on disk now
TemplateOnDisk == IF sameFile THEN outFile.data ELSE Template

\* GenerateReport returned an error after copyFile succeeded and before
\* UpdateLinkedValue and Save
FailedBeforeSave ==
  /\ pc = "returned" /\ err # NoErr
  /\ err[1].k # "copy"
  /\ ~SaveReached

\* C27.  When GenerateReport returns an error after the copy and before
\* the save, the output file exists and holds what the template file
\* holds; what the rows changed is in memory only.
C27_NoPartialOutput ==
  FailedBeforeSave => outFile = [exists |-> TRUE, data |-> TemplateOnDisk]

\* a row failed after a reference cell was cleared and a cell was filled in
\* memory, and the output file is the template's copy
C27_Witness ==
  /\ FailedBeforeSave /\ ~sameFile /\ RowFailed
  /\ \E i \in Calls : RefCol \in log[i].wrote /\ wb[log[i].s][log[i].r][RefCol] = VNil
  /\ \E i \in Calls : log[i].wrote \ {RefCol} # {}
  /\ outFile.data = Template /\ wb # Template

\* C28 as stated.  The template file holds after the run, and all through
\* it, what it held before.
C28_TemplateUntouched == TemplateOnDisk = Template

\* the output path named the template file: the run failed at OpenFile and
\* left the template empty
C28_Witness ==
  /\ sameFile /\ pc = "returned" /\ ErrIs(err, "open")
  /\ Template # <<>> /\ TemplateOnDisk = <<>>

\* C29 as stated.  A FetchData call that has returned ran its query on the
\* open pool, or ran none and returned the "closed" error or, for a query it
\* refuses, the "empty" one; none ran its query on a pool Close had closed;
\* and the pool was closed at most once.
C29_FetchNeverOnClosedPool ==
  /\ \A i \in 1..MaxFetches : fetches[i].pc = "done" =>
       \/ fetches[i].ran = "open"
       \/ fetches[i].ran = "no" /\ fetches[i].ret \in {ErrDataSourceClosed, ErrEmptyQuery}
  /\ poolCloses <= 1

\* a FetchData call read p.closed before Close swapped it, and queried the
\* pool after Close had closed it
C29_Witness ==
  /\ poolCloses = 1
  /\ \E i \in 1..MaxFetches :
       /\ fetches[i].pc = "done" /\ ~fetches[i].late
       /\ fetches[i].ran = "closed"
       /\ fetches[i].ret # ErrDataSourceClosed

\* C30 as stated.  The file each processRow call reads lies inside the
\* queries base directory, whatever the reference cell holds.
C30_QueryPathInsideBase ==
  \A i \in Calls : log[i].read => Inside(QueriesDir, log[i].path)

\* a reference that begins with ".." made processRow read a file above the
\* queries directory and send its text to the data source
C30_Witness ==
  \E i \in Calls :
    /\ log[i].read /\ log[i].called
    /\ Head(TrimSpace(RowAt(log[i])[RefCol])) = ".."
    /\ ~Inside(QueriesDir, log[i].path)
    /\ FileKind(log[i].path) = "file"
====
